---- MODULE Spec2Model ----
(***************************************************************************)
(* A model of figma-context-extractor: the bounded concurrency executor    *)
(* (runWithConcurrency, src/src/utils/common.ts), the enrichment merger    *)
(* (enrichMetadataWithImages and its helpers, src/src/lib.ts), the image   *)
(* asset locator and the display path of an image (src/src/lib.ts), the    *)
(* svg collapse hook and the style registry (src/unnamed/part_000), and    *)
(* the simplification step of getFigmaMetadata, whose tree walker follows  *)
(* section 4.4 of the specification.                                       *)
(***************************************************************************)
EXTENDS Integers, Sequences, FiniteSets, TLC

(* ---- bounds of the model ---------------------------------------------- *)

\* most tasks handed to runWithConcurrency
MaxTasks == 3

\* largest concurrency limit tried (limits run from -1 to MaxLimit)
MaxLimit == 3

\* most nodes in a simplified tree handed to the enrichment functions
MaxNodes == 3

\* most entries of metadata.images
MaxImages == 3

\* longest positional imagePaths array
MaxPaths == 3

\* longest file path, in characters, whose display path is computed alone
MaxPathLen == 4

\* longest base path, in characters, given as options.useRelativePaths
MaxBaseLen == 2

\* most processed children handed to collapseSvgContainers taken alone
MaxKids == 3

\* most raw nodes of a document handed to the walker
MaxRawNodes == 4

\* largest options.depth tried
MaxDepth == 3

\* most style registrations of one simplification call
MaxRegs == 4

\* most style registrations when two calls are taken side by side
MaxTwiceRegs == 2

\* the ids generateVarId can draw for one prefix
MaxIds == 2
MaxNameLen == 3
MaxResponses == 2

(***************************************************************************)
(* State of one runWithConcurrency call.                                   *)
(*   pc          "idle" before the call, "called" once the executor ran    *)
(*   tasks       the task list, tasks[i] = i names the i-th producer       *)
(*   limit       the limit argument                                        *)
(*   taskSt      per task: "idle" (not started), "running" (promise        *)
(*               pending), "fulfilled", "rejected"                         *)
(*   taskVal     per task: the value it fulfilled with (NoValue before)    *)
(*   results     the results array (Empty for a slot never written)        *)
(*   completed, launched, failed   the closure's counters and flag         *)
(*   promise     the returned promise: state and settlement value          *)
(*   jobs        promise reaction jobs queued by the .then().catch() chain *)
(*   firstRejected  history: the task whose promise rejected first (0:none)*)
(*   writes      history: per result slot, the tasks that wrote it         *)
(*   doneOrder   history: the order in which fulfilment callbacks ran      *)
(***************************************************************************)
VARIABLES pc, tasks, limit, taskSt, taskVal, results, completed, launched,
          failed, promise, jobs, firstRejected, writes, doneOrder

rvars == <<pc, tasks, limit, taskSt, taskVal, results, completed, launched,
           failed, promise, jobs, firstRejected, writes, doneOrder>>

(***************************************************************************)
(* State of one enrichMetadataWithImages call.                             *)
(*   given       history: the metadata argument as the caller passed it    *)
(*   metadata    the caller's metadata object (as the call leaves it)      *)
(*   imagePaths  the imagePaths argument: [isArray, paths], paths being    *)
(*               the array, or the mapping from node id to path            *)
(*   options     the options the call was made with ("unset" before)       *)
(*   outcome     how the call ended: status "none" (not called),           *)
(*               "returned" or "threw"; identity says that the returned    *)
(*               object is the argument itself; nodes is the returned tree *)
(***************************************************************************)
VARIABLES given, metadata, imagePaths, options, outcome

evars == <<given, metadata, imagePaths, options, outcome>>

(***************************************************************************)
(* State of one imageMap.set of enrichNodesWithImages, taken alone.        *)
(*   download    the asset's name and its download result                  *)
(*   pathPolicy  options.useRelativePaths                                  *)
(*   bundle      <<>> before, <<the bundle stored for the asset>> after    *)
(***************************************************************************)
VARIABLES download, pathPolicy, bundle

pvars == <<download, pathPolicy, bundle>>

(***************************************************************************)
(* State of the calls of findImageAssets on one simplified design.         *)
(*   design      the arguments: [nodes, globalVars]                        *)
(*   found       the sequences the calls made so far returned, in order    *)
(***************************************************************************)
VARIABLES design, found

lvars == <<design, found>>

(***************************************************************************)
(* State of one collapseSvgContainers call, taken alone.                   *)
(*   hook        the arguments: node (the raw node), result (the node      *)
(*               being built) and children (the processed children)        *)
(*   hooked      <<>> before the call; after it <<[result, children]>>,    *)
(*               result as the call left it and the children it returned   *)
(***************************************************************************)
VARIABLES hook, hooked

cvars == <<hook, hooked>>

(***************************************************************************)
(* State of the simplification step of one getFigmaMetadata call.          *)
(*   rawNodes    the raw nodes handed to the walker                        *)
(*   depth       options.depth: <<>> when absent, <<n>> when given         *)
(*   simplified  <<>> before the step, <<the simplified nodes>> after      *)
(***************************************************************************)
VARIABLES rawNodes, depth, simplified

wvars == <<rawNodes, depth, simplified>>

(***************************************************************************)
(* State of the style registry over two simplification calls on the same   *)
(* raw input, each with its own registry, taken registration by            *)
(* registration.                                                           *)
(*   styles      globalVars.styles of the first call: the entries          *)
(*               [id, value] in insertion order                            *)
(*   refs        history of the first call: per registration the value     *)
(*               the extractor computed, the reference it wrote on the     *)
(*               node, and whether the named-style path was taken          *)
(*   stylesB, refsB   the same for the second call                         *)
(***************************************************************************)
VARIABLES styles, refs, stylesB, refsB

gvars == <<styles, refs, stylesB, refsB>>

(***************************************************************************)
(* State of one call of an entry point of the library (getFigmaMetadata,   *)
(* downloadFigmaImages or downloadFigmaFrameImage).                        *)
(*   request     the call: the function, the URL and the options           *)
(*   remote      what lies behind FigmaService for this call: how the      *)
(*               fetch and the download end, and the simplified design of  *)
(*               the file                                                  *)
(*   calls       history: the FigmaService calls made so far, in order     *)
(*   apc         where the call stands: "start", "fetching" (awaiting      *)
(*               getRawNode / getRawFile), "rendering" (awaiting           *)
(*               downloadImages) or "done"                                 *)
(*   answer      how the call ended: status "none", "returned" or          *)
(*               "threw", and the message of the error thrown              *)
(***************************************************************************)
VARIABLES request, remote, calls, apc, answer

avars == <<request, remote, calls, apc, answer>>

(***************************************************************************)
(* State of one parseAPIResponse call.                                     *)
(*   apiData     the raw response handed to parseAPIResponse               *)
(*   parsed      <<>> before the call, <<what it returned>> after          *)
(***************************************************************************)
VARIABLES apiData, parsed

nvars == <<apiData, parsed>>

vars == <<rvars, evars, pvars, lvars, cvars, wvars, gvars, avars, nvars>>

\* what a step of runWithConcurrency leaves alone
notRun == <<evars, pvars, lvars, cvars, wvars, gvars, avars, nvars>>

\* what enrichMetadataWithImages leaves alone
notEnrich == <<rvars, pvars, lvars, cvars, wvars, gvars, avars, nvars>>

\* what the imageMap.set taken alone leaves alone
notPath == <<rvars, evars, lvars, cvars, wvars, gvars, avars, nvars>>

\* what a call of findImageAssets leaves alone
notLocate == <<rvars, evars, pvars, cvars, wvars, gvars, avars, nvars>>

\* what a call of collapseSvgContainers leaves alone
notCollapse == <<rvars, evars, pvars, lvars, wvars, gvars, avars, nvars>>

\* what the simplification step leaves alone
notWalk == <<rvars, evars, pvars, lvars, cvars, gvars, avars, nvars>>

\* what an extractor's registration leaves alone
notStyles == <<rvars, evars, pvars, lvars, cvars, wvars, avars, nvars>>

\* what a call of an entry point leaves alone
notEntry == <<rvars, evars, pvars, lvars, cvars, wvars, gvars, nvars>>

\* what a call of parseAPIResponse leaves alone
notParse == <<rvars, evars, pvars, lvars, cvars, wvars, gvars, avars>>

Empty == "empty"
NoValue == "novalue"
TaskValues == {"x", "y"}
Limits == {-1} \cup (0 .. MaxLimit)

\* the rejection reason of task i
ErrOf(i) == <<"err", i>>

N == Len(tasks)

\* new Array(tasks.length)
NewArray(n) == [i \in 1 .. n |-> Empty]

\* resolve(v): settles the returned promise unless it is settled already
resolve(v) ==
    promise' = IF promise.state = "pending"
               THEN [state |-> "resolved", value |-> v]
               ELSE promise

\* reject(e): settles the returned promise unless it is settled already
reject(e) ==
    promise' = IF promise.state = "pending"
               THEN [state |-> "rejected", value |-> e]
               ELSE promise

\* mutant of LaunchLoop: the capacity test is off by one
RECURSIVE LaunchLoopOffByOne(_, _)
LaunchLoopOffByOne(l, c) ==
    IF l < N /\ l - c <= limit THEN LaunchLoopOffByOne(l + 1, c) ELSE l

\* mutant of LaunchLoop: an if instead of a while, one launch per pass
LaunchLoopOnce(l, c) ==
    IF l < N /\ l - c < limit THEN l + 1 ELSE l

\* while (launched < tasks.length && launched - completed < limit) launched++
\* the value of launched when the loop ends, from launched = l, completed = c
RECURSIVE LaunchLoop(_, _)
LaunchLoop(l, c) ==
    IF l < N /\ l - c < limit THEN LaunchLoop(l + 1, c) ELSE l

\* mutant of next: the failed flag is not looked at
nextIgnoresFailed(c, res) ==
    IF c = N
    THEN resolve(res) /\ UNCHANGED <<launched, taskSt>>
    ELSE LET l == LaunchLoop(launched, c) IN
         /\ launched' = l
         /\ taskSt' = [i \in 1 .. N |->
                         IF launched < i /\ i <= l THEN "running" ELSE taskSt[i]]
         /\ UNCHANGED promise

\* mutant of next: resolves once every task was launched, not completed
nextResolveOnLaunched(c, res) ==
    IF failed
    THEN UNCHANGED <<launched, taskSt, promise>>
    ELSE IF launched = N
         THEN resolve(res) /\ UNCHANGED <<launched, taskSt>>
         ELSE LET l == LaunchLoop(launched, c) IN
              /\ launched' = l
              /\ taskSt' = [i \in 1 .. N |->
                              IF launched < i /\ i <= l THEN "running" ELSE taskSt[i]]
              /\ UNCHANGED promise

\* next(), run with completed = c and results = res already assigned:
\* sets launched, starts the launched tasks, may resolve the promise
next(c, res) ==
    IF failed
    THEN UNCHANGED <<launched, taskSt, promise>>
    ELSE IF c = N
         THEN resolve(res) /\ UNCHANGED <<launched, taskSt>>
         ELSE LET l == LaunchLoop(launched, c) IN
              /\ launched' = l
              /\ taskSt' = [i \in 1 .. N |->
                              IF launched < i /\ i <= l THEN "running" ELSE taskSt[i]]
              /\ UNCHANGED promise

\* mutant of runWithConcurrency: the empty branch returns without resolving
runWithConcurrencyNoResolve ==
    /\ pc = "idle"
    /\ UNCHANGED notRun
    /\ pc' = "called"
    /\ IF N = 0
       THEN UNCHANGED <<launched, taskSt, promise>>
       ELSE next(0, results)
    /\ UNCHANGED <<tasks, limit, taskVal, results, completed, failed, jobs,
                   firstRejected, writes, doneOrder>>

\* the call: the promise executor up to and including the first next()
runWithConcurrency ==
    /\ pc = "idle"
    /\ UNCHANGED notRun
    /\ pc' = "called"
    /\ IF N = 0
       THEN resolve(<<>>) /\ UNCHANGED <<launched, taskSt>>
       ELSE next(0, results)
    /\ UNCHANGED <<tasks, limit, taskVal, results, completed, failed, jobs,
                   firstRejected, writes, doneOrder>>

\* the promise of task i fulfils with v: its .then reaction is queued
TaskFulfils(i, v) ==
    /\ pc = "called"
    /\ UNCHANGED notRun
    /\ taskSt[i] = "running"
    /\ taskSt' = [taskSt EXCEPT ![i] = "fulfilled"]
    /\ taskVal' = [taskVal EXCEPT ![i] = v]
    /\ jobs' = Append(jobs, [kind |-> "then", index |-> i, val |-> v])
    /\ UNCHANGED <<pc, tasks, limit, results, completed, launched, failed,
                   promise, firstRejected, writes, doneOrder>>

\* the promise of task i rejects: .then has no rejection handler, so its
\* reaction only passes the reason on to the promise .catch is attached to
TaskRejects(i) ==
    /\ pc = "called"
    /\ UNCHANGED notRun
    /\ taskSt[i] = "running"
    /\ taskSt' = [taskSt EXCEPT ![i] = "rejected"]
    /\ jobs' = Append(jobs, [kind |-> "pass", index |-> i, val |-> ErrOf(i)])
    /\ firstRejected' = IF firstRejected = 0 THEN i ELSE firstRejected
    /\ UNCHANGED <<pc, tasks, limit, taskVal, results, completed, launched,
                   failed, promise, writes, doneOrder>>

\* mutant of ThenCallback: the result is stored and counted, next() is
\* not called
ThenCallbackNoNext(index, result) ==
    /\ results' = [results EXCEPT ![index] = result]
    /\ completed' = completed + 1
    /\ writes' = [writes EXCEPT ![index] = Append(@, index)]
    /\ doneOrder' = Append(doneOrder, index)
    /\ UNCHANGED <<launched, taskSt, promise>>

\* mutant of ThenCallback: results.push(result), a slot per completion
ThenCallbackPush(index, result) ==
    LET slot == completed + 1
        res  == [results EXCEPT ![slot] = result]
    IN  /\ results' = res
        /\ completed' = completed + 1
        /\ writes' = [writes EXCEPT ![slot] = Append(@, index)]
        /\ doneOrder' = Append(doneOrder, index)
        /\ next(completed + 1, res)

\* .then((result) => { results[index] = result; completed++; next(); })
ThenCallback(index, result) ==
    LET slot == index
        res  == [results EXCEPT ![slot] = result]
    IN  /\ results' = res
        /\ completed' = completed + 1
        /\ writes' = [writes EXCEPT ![slot] = Append(@, index)]
        /\ doneOrder' = Append(doneOrder, index)
        /\ next(completed + 1, res)

\* mutant of CatchCallback: the error is swallowed, the promise never rejects
CatchCallbackSwallow(err) ==
    /\ failed' = TRUE
    /\ UNCHANGED promise

\* .catch((err) => { failed = true; reject(err); })
CatchCallback(err) ==
    /\ failed' = TRUE
    /\ reject(err)

\* the oldest queued reaction of a fulfilled task runs
RunThen ==
    /\ jobs # <<>>
    /\ UNCHANGED notRun
    /\ Head(jobs).kind = "then"
    /\ ThenCallback(Head(jobs).index, Head(jobs).val)
    /\ jobs' = Tail(jobs)
    /\ UNCHANGED <<pc, tasks, limit, taskVal, failed, firstRejected>>

\* the oldest queued reaction is the pass-through of a rejection: the
\* promise returned by .then rejects and the .catch reaction is queued
RunPass ==
    /\ jobs # <<>>
    /\ UNCHANGED notRun
    /\ Head(jobs).kind = "pass"
    /\ jobs' = Append(Tail(jobs), [Head(jobs) EXCEPT !.kind = "catch"])
    /\ UNCHANGED <<pc, tasks, limit, taskSt, taskVal, results, completed,
                   launched, failed, promise, firstRejected, writes, doneOrder>>

\* the oldest queued reaction is a .catch handler
RunCatch ==
    /\ jobs # <<>>
    /\ UNCHANGED notRun
    /\ Head(jobs).kind = "catch"
    /\ CatchCallback(Head(jobs).val)
    /\ jobs' = Tail(jobs)
    /\ UNCHANGED <<pc, tasks, limit, taskSt, taskVal, results, completed,
                   launched, firstRejected, writes, doneOrder>>

(* ---- the enrichment merger (src/src/lib.ts) --------------------------- *)

\* a field that is not there: node.fills, options.localPath
Absent == "absent"

\* the empty string as a path
EmptyPath == <<>>

\* A path is the sequence of its separators ("/" and "\\") and of the
\* runs of other characters between them.
Separators == {"/", "\\"}

\* five file paths, all different: under /tmp, under /var/www, with
\* backslashes, without a directory, under /var/www with a backslash
PathPool ==
    << <<"/", "tmp", "/", "a.png">>,
       <<"/", "var", "/", "www", "/", "img", "/", "b.png">>,
       <<"C:", "\\", "out", "\\", "c.png">>,
       <<"d.png">>,
       <<"/", "var", "/", "www", "\\", "e.png">> >>

\* the path offered for array position, or node id, i
PathFor(i) == PathPool[((i - 1) % Len(PathPool)) + 1]

\* the values of options.useRelativePaths tried: true (the default), false,
\* and base paths to strip
PathPolicies ==
    { [kind |-> "true", base |-> EmptyPath],
      [kind |-> "false", base |-> EmptyPath],
      [kind |-> "base", base |-> <<"/", "var", "/", "www">>] }

\* globalVars.styles: fill lists with and without an IMAGE paint, and a
\* style value that is not a list
Styles ==
    [s \in {"fill_IMG", "fill_SOLID", "layout_1"} |->
        CASE s = "fill_IMG" ->
               [isArray |-> TRUE, items |-> <<[type |-> "SOLID"], [type |-> "IMAGE"]>>]
          [] s = "fill_SOLID" ->
               [isArray |-> TRUE, items |-> <<[type |-> "SOLID"]>>]
          [] OTHER ->
               [isArray |-> FALSE, items |-> <<>>]]

\* a SimplifiedNode that is or is not an image asset, with the children
\* kids. The vector marker IMAGE-SVG has no children (the collapse
\* discards them), so an asset with children is a frame filled with an
\* image. downloadedImage is <<>> when the field is absent and <<bundle>>
\* when it is there; the id is 0 until the tree is labelled.
MkNode(asset, kids) ==
    [id |-> 0,
     name |-> IF asset THEN (IF kids = <<>> THEN "icon" ELSE "photo") ELSE "box",
     type |-> IF asset /\ kids = <<>> THEN "IMAGE-SVG" ELSE "FRAME",
     fills |-> IF asset
               THEN (IF kids = <<>> THEN Absent ELSE "fill_IMG")
               ELSE (IF kids = <<>> THEN "fill_SOLID" ELSE "layout_1"),
     children |-> kids,
     downloadedImage |-> <<>>]

\* every forest (node list) of exactly n nodes
RECURSIVE Forests(_)
Forests(n) ==
    IF n = 0
    THEN {<<>>}
    ELSE UNION { { <<MkNode(a, c)>> \o rest :
                      a \in BOOLEAN, c \in Forests(i), rest \in Forests(n - 1 - i) } :
                 i \in 0 .. n - 1 }

\* the number of nodes of a forest
RECURSIVE Size(_)
Size(f) ==
    IF f = <<>> THEN 0 ELSE 1 + Size(Head(f).children) + Size(Tail(f))

\* node ids are unique in a document; the k-th node in document order of a
\* forest of total nodes gets id total + 1 - k, so that the order of the
\* ids is not the order of the traversal
RECURSIVE Label(_, _, _)
Label(f, k, total) ==
    IF f = <<>>
    THEN <<>>
    ELSE LET h == Head(f) IN
         <<[h EXCEPT !.id = total + 1 - k,
                     !.children = Label(h.children, k + 1, total)]>>
         \o Label(Tail(f), k + 1 + Size(h.children), total)

\* the node lists tried: every forest of at most MaxNodes nodes
NodeLists ==
    UNION { { Label(f, 1, n) : f \in Forests(n) } : n \in 0 .. MaxNodes }

\* hasImageFill(node, globalVars)
hasImageFill(node, globalVars) ==
    IF node.fills = Absent \/ node.fills = ""
    THEN FALSE
    ELSE IF node.fills \notin DOMAIN globalVars.styles
         THEN FALSE
         ELSE LET fillData == globalVars.styles[node.fills] IN
              IF ~fillData.isArray
              THEN FALSE
              ELSE \E i \in 1 .. Len(fillData.items) : fillData.items[i].type = "IMAGE"

\* const isImageAsset = node.type === 'IMAGE-SVG' || hasImageFill(node, globalVars)
isImageAsset(node, globalVars) ==
    node.type = "IMAGE-SVG" \/ hasImageFill(node, globalVars)

\* mutant of findImageAssets: children are visited before their parent
RECURSIVE findImageAssetsPostOrder(_, _)
findImageAssetsPostOrder(nodes, globalVars) ==
    IF nodes = <<>>
    THEN <<>>
    ELSE LET node == Head(nodes) IN
         findImageAssetsPostOrder(node.children, globalVars)
         \o (IF isImageAsset(node, globalVars) THEN <<node>> ELSE <<>>)
         \o findImageAssetsPostOrder(Tail(nodes), globalVars)

\* findImageAssets(nodes, globalVars): nodes.forEach(traverse), traverse
\* pushing the node when it is an asset and then visiting its children
RECURSIVE findImageAssets(_, _)
findImageAssets(nodes, globalVars) ==
    IF nodes = <<>>
    THEN <<>>
    ELSE LET node == Head(nodes) IN
         (IF isImageAsset(node, globalVars) THEN <<node>> ELSE <<>>)
         \o findImageAssets(node.children, globalVars)
         \o findImageAssets(Tail(nodes), globalVars)

\* getImageNodeInfo(metadata)
getImageNodeInfo(md) ==
    IF ~md.images.present \/ Len(md.images.list) = 0
    THEN <<>>
    ELSE LET imageAssets == findImageAssets(md.nodes, md.globalVars) IN
         [i \in 1 .. Len(imageAssets) |->
             [nodeId |-> imageAssets[i].id, name |-> imageAssets[i].name]]

\* s.replace(/\\/g, '/')
RECURSIVE NormalizeSeparators(_)
NormalizeSeparators(p) ==
    IF p = <<>>
    THEN <<>>
    ELSE <<IF Head(p) = "\\" THEN "/" ELSE Head(p)>> \o NormalizeSeparators(Tail(p))

\* s.split(/[/\\]/).pop(): what follows the last separator
RECURSIVE LastComponent(_)
LastComponent(p) ==
    IF p = <<>>
    THEN <<>>
    ELSE IF p[Len(p)] \in Separators
         THEN <<>>
         ELSE IF Len(p) = 1 \/ p[Len(p) - 1] \in Separators
              THEN <<p[Len(p)]>>
              ELSE LastComponent(SubSeq(p, 1, Len(p) - 1)) \o <<p[Len(p)]>>

\* s.startsWith(prefix)
StartsWith(s, prefix) ==
    /\ Len(prefix) <= Len(s)
    /\ SubSeq(s, 1, Len(prefix)) = prefix

\* mutant of PathForMarkup: a base path that does not match leaves the
\* file path as it is
PathForMarkupNoFallback(filePath, useRelativePaths) ==
    IF useRelativePaths.kind = "false"
    THEN filePath
    ELSE IF useRelativePaths.kind = "base"
         THEN LET base == useRelativePaths.base
                  basePath == IF base # <<>> /\ base[Len(base)] = "/"
                              THEN base ELSE base \o <<"/">>
                  normalizedFilePath == NormalizeSeparators(filePath)
                  normalizedBasePath == NormalizeSeparators(basePath)
              IN  IF StartsWith(normalizedFilePath, normalizedBasePath)
                  THEN <<".", "/">> \o SubSeq(normalizedFilePath,
                                              Len(normalizedBasePath) + 1,
                                              Len(normalizedFilePath))
                  ELSE filePath
         ELSE <<".", "/">> \o LastComponent(filePath)

\* pathForMarkup, from result.filePath and useRelativePaths
PathForMarkup(filePath, useRelativePaths) ==
    IF useRelativePaths.kind = "false"
    THEN filePath
    ELSE IF useRelativePaths.kind = "base"
         THEN LET base == useRelativePaths.base
                  basePath == IF base # <<>> /\ base[Len(base)] = "/"
                              THEN base ELSE base \o <<"/">>
                  normalizedFilePath == NormalizeSeparators(filePath)
                  normalizedBasePath == NormalizeSeparators(basePath)
              IN  IF StartsWith(normalizedFilePath, normalizedBasePath)
                  THEN <<".", "/">> \o SubSeq(normalizedFilePath,
                                              Len(normalizedBasePath) + 1,
                                              Len(normalizedFilePath))
                  ELSE <<".", "/">> \o LastComponent(filePath)
         ELSE <<".", "/">> \o LastComponent(filePath)

\* the bundle imageMap holds for an asset and its download result
ImageBundle(asset, result, useRelativePaths) ==
    LET pathForMarkup == PathForMarkup(result.filePath, useRelativePaths) IN
    [filePath |-> result.filePath,
     relativePath |-> pathForMarkup,
     dimensions |-> result.finalDimensions,
     wasCropped |-> result.wasCropped,
     markdown |-> [alt |-> asset.name, src |-> pathForMarkup],
     html |-> [src |-> pathForMarkup, alt |-> asset.name,
               width |-> result.finalDimensions.width,
               height |-> result.finalDimensions.height]]

\* mutant of BuildImageMap: the result is taken from the end of the list
RECURSIVE BuildImageMapReversed(_, _, _, _)
BuildImageMapReversed(imageAssets, downloadResults, useRelativePaths, n) ==
    IF n = 0
    THEN [id \in {} |-> <<>>]
    ELSE LET imageMap == BuildImageMapReversed(imageAssets, downloadResults,
                                               useRelativePaths, n - 1)
             asset == imageAssets[n]
             m == Len(imageAssets) + 1 - n
         IN  IF m <= Len(downloadResults) /\ downloadResults[m].filePath # EmptyPath
             THEN [id \in DOMAIN imageMap \cup {asset.id} |->
                      IF id = asset.id
                      THEN ImageBundle(asset, downloadResults[m], useRelativePaths)
                      ELSE imageMap[id]]
             ELSE imageMap

\* imageMap after imageAssets.forEach has handled the first n assets: asset
\* n is entered under its id when downloadResults[n] is there and has a
\* non-empty filePath
RECURSIVE BuildImageMap(_, _, _, _)
BuildImageMap(imageAssets, downloadResults, useRelativePaths, n) ==
    IF n = 0
    THEN [id \in {} |-> <<>>]
    ELSE LET imageMap == BuildImageMap(imageAssets, downloadResults,
                                       useRelativePaths, n - 1)
             asset == imageAssets[n]
         IN  IF n <= Len(downloadResults) /\ downloadResults[n].filePath # EmptyPath
             THEN [id \in DOMAIN imageMap \cup {asset.id} |->
                      IF id = asset.id
                      THEN ImageBundle(asset, downloadResults[n], useRelativePaths)
                      ELSE imageMap[id]]
             ELSE imageMap

\* mutant of enrichNode: const enriched = node, the fields are assigned on
\* the node that was passed in
RECURSIVE enrichNodeAliased(_, _)
enrichNodeAliased(node, imageMap) ==
    LET kids == [i \in 1 .. Len(node.children) |->
                    enrichNodeAliased(node.children[i], imageMap)]
        enriched ==
            [node EXCEPT
               !.downloadedImage = IF node.id \in DOMAIN imageMap
                                   THEN <<imageMap[node.id]>> ELSE @,
               !.children = [i \in 1 .. Len(kids) |-> kids[i].enriched]]
    IN  [enriched |-> enriched, node |-> enriched]

\* enrichNode(node): enriched is what it returns, node is the argument as
\* the call leaves it. const enriched = { ...node } is a new object and
\* node.children.map a new array, so the argument keeps its fields and its
\* children list, each child being what its own enrichNode call leaves.
RECURSIVE enrichNode(_, _)
enrichNode(node, imageMap) ==
    LET kids == [i \in 1 .. Len(node.children) |->
                    enrichNode(node.children[i], imageMap)]
        enriched ==
            [node EXCEPT
               !.downloadedImage = IF node.id \in DOMAIN imageMap
                                   THEN <<imageMap[node.id]>> ELSE @,
               !.children = [i \in 1 .. Len(kids) |-> kids[i].enriched]]
    IN  [enriched |-> enriched,
         node |-> [node EXCEPT !.children = [i \in 1 .. Len(kids) |-> kids[i].node]]]

\* enrichNodesWithImages(nodes, imageAssets, downloadResults,
\* useRelativePaths): enriched is the returned list, nodes the argument
\* list as the call leaves it
enrichNodesWithImages(nodes, imageAssets, downloadResults, useRelativePaths) ==
    LET imageMap == BuildImageMap(imageAssets, downloadResults, useRelativePaths,
                                  Len(imageAssets))
        each == [i \in 1 .. Len(nodes) |-> enrichNode(nodes[i], imageMap)]
    IN  [enriched |-> [i \in 1 .. Len(nodes) |-> each[i].enriched],
         nodes |-> [i \in 1 .. Len(nodes) |-> each[i].node]]

NoError == [kind |-> "none", paths |-> 0, images |-> 0, nodeId |-> 0]

\* new Error(`Number of image paths (${imagePaths.length}) must match
\* number of images (${metadata.images.length})`)
CountError(nPaths, nImages) ==
    [kind |-> "NumberOfImagePathsMustMatch", paths |-> nPaths,
     images |-> nImages, nodeId |-> 0]

\* new Error(`No image path provided for node ID: ${asset.id}`)
MissingError(id) ==
    [kind |-> "NoImagePathProvided", paths |-> 0, images |-> 0, nodeId |-> id]

\* downloadResults of the array format: one per path, with the dimensions
\* of the image at the same index
ArrayDownloadResults(paths, images) ==
    [i \in 1 .. Len(paths) |->
        [filePath |-> paths[i],
         finalDimensions |-> images[i].finalDimensions,
         wasCropped |-> images[i].wasCropped]]

\* imagePaths[asset.id] is undefined or ''
NoPathFor(paths, id) == id \notin DOMAIN paths \/ paths[id] = EmptyPath

\* metadata.images.find(img => img.nodeId === asset.id), as <<>> or <<img>>
FindImage(images, id) ==
    LET hits == {i \in 1 .. Len(images) : images[i].nodeId = id} IN
    IF hits = {} THEN <<>>
    ELSE <<images[CHOOSE i \in hits : \A j \in hits : i <= j]>>

\* mutant of ObjectDownloadResults: assets without a path are given an
\* empty path (and so skipped) where the code throws
ObjectDownloadResultsLenient(imageAssets, paths, images) ==
    [threw |-> FALSE, error |-> NoError,
     results |-> [i \in 1 .. Len(imageAssets) |->
        LET asset == imageAssets[i]
            imageMetadata == FindImage(images, asset.id)
        IN  [filePath |-> IF NoPathFor(paths, asset.id)
                          THEN EmptyPath ELSE paths[asset.id],
             finalDimensions |-> IF imageMetadata = <<>>
                                 THEN [width |-> 0, height |-> 0]
                                 ELSE imageMetadata[1].finalDimensions,
             wasCropped |-> IF imageMetadata = <<>>
                            THEN FALSE ELSE imageMetadata[1].wasCropped]]]

\* downloadResults of the object format: imageAssets.map, which throws at
\* the first asset, in locator order, whose id has no path
ObjectDownloadResults(imageAssets, paths, images) ==
    LET missing == {i \in 1 .. Len(imageAssets) : NoPathFor(paths, imageAssets[i].id)} IN
    IF missing # {}
    THEN [threw |-> TRUE,
          error |-> MissingError(
              imageAssets[CHOOSE i \in missing : \A j \in missing : i <= j].id),
          results |-> <<>>]
    ELSE [threw |-> FALSE, error |-> NoError,
          results |-> [i \in 1 .. Len(imageAssets) |->
             LET asset == imageAssets[i]
                 imageMetadata == FindImage(images, asset.id)
             IN  [filePath |-> paths[asset.id],
                  finalDimensions |-> IF imageMetadata = <<>>
                                      THEN [width |-> 0, height |-> 0]
                                      ELSE imageMetadata[1].finalDimensions,
                  wasCropped |-> IF imageMetadata = <<>>
                                 THEN FALSE ELSE imageMetadata[1].wasCropped]]]

\* the call ends by throwing: no tree is returned, nothing is written
Throws(err) ==
    /\ outcome' = [status |-> "threw", identity |-> FALSE, nodes |-> <<>>,
                   error |-> err]
    /\ UNCHANGED metadata

\* the call ends with enrichNodesWithImages and returns
\* { ...metadata, nodes: enrichedNodes }
ReturnsEnriched(imageAssets, downloadResults, useRelativePaths) ==
    LET r == enrichNodesWithImages(metadata.nodes, imageAssets, downloadResults,
                                   useRelativePaths)
    IN  /\ outcome' = [status |-> "returned", identity |-> FALSE,
                       nodes |-> r.enriched, error |-> NoError]
        /\ metadata' = [metadata EXCEPT !.nodes = r.nodes]

\* mutant of enrichMetadataWithImages: no early return when metadata.images
\* is absent or empty
enrichMetadataWithImagesNoEarlyReturn ==
    /\ outcome.status = "none"
    /\ UNCHANGED notEnrich
    /\ \E useRelativePaths \in PathPolicies :
        /\ options' = [useRelativePaths |-> useRelativePaths, localPath |-> Absent]
        /\ IF FALSE
           THEN UNCHANGED <<outcome, metadata>>
           ELSE LET imageAssets == findImageAssets(metadata.nodes, metadata.globalVars)
                    images == metadata.images.list
                IN  IF imagePaths.isArray
                    THEN IF Len(imagePaths.paths) # Len(images)
                         THEN Throws(CountError(Len(imagePaths.paths), Len(images)))
                         ELSE ReturnsEnriched(imageAssets,
                                  ArrayDownloadResults(imagePaths.paths, images),
                                  useRelativePaths)
                    ELSE LET d == ObjectDownloadResults(imageAssets, imagePaths.paths,
                                                        images)
                         IN  IF d.threw
                             THEN Throws(d.error)
                             ELSE ReturnsEnriched(imageAssets, d.results,
                                                  useRelativePaths)
    /\ UNCHANGED <<given, imagePaths>>

\* enrichMetadataWithImages(metadata, imagePaths, options)
enrichMetadataWithImages ==
    /\ outcome.status = "none"
    /\ UNCHANGED notEnrich
    /\ \E useRelativePaths \in PathPolicies :
        /\ options' = [useRelativePaths |-> useRelativePaths, localPath |-> Absent]
        /\ IF ~metadata.images.present \/ Len(metadata.images.list) = 0
           THEN /\ outcome' = [status |-> "returned", identity |-> TRUE,
                               nodes |-> metadata.nodes, error |-> NoError]
                /\ UNCHANGED metadata
           ELSE LET imageAssets == findImageAssets(metadata.nodes, metadata.globalVars)
                    images == metadata.images.list
                IN  IF imagePaths.isArray
                    THEN IF Len(imagePaths.paths) # Len(images)
                         THEN Throws(CountError(Len(imagePaths.paths), Len(images)))
                         ELSE ReturnsEnriched(imageAssets,
                                  ArrayDownloadResults(imagePaths.paths, images),
                                  useRelativePaths)
                    ELSE LET d == ObjectDownloadResults(imageAssets, imagePaths.paths,
                                                        images)
                         IN  IF d.threw
                             THEN Throws(d.error)
                             ELSE ReturnsEnriched(imageAssets, d.results,
                                                  useRelativePaths)
    /\ UNCHANGED <<given, imagePaths>>

\* metadata.images as getFigmaMetadata fills it: one result per asset, in
\* locator order; n results are the first n of these, continued by results
\* without a node id when n exceeds the number of assets
ImagesOf(nodes, globalVars, n) ==
    LET imageAssets == findImageAssets(nodes, globalVars) IN
    [i \in 1 .. n |->
        [nodeId |-> IF i <= Len(imageAssets) THEN imageAssets[i].id ELSE 0,
         finalDimensions |-> [width |-> 10 * i, height |-> 5 * i],
         wasCropped |-> (i % 2 = 0)]]

\* the positional arrays tried: at position i the i-th path of the pool,
\* or the empty string
PathArrays ==
    UNION { [1 .. n -> {"path", "empty"}] : n \in 0 .. MaxPaths }

\* the mappings tried: each node id 1 .. MaxNodes has an entry, its own
\* path of the pool, or none; at most one entry is the empty string
PathMaps ==
    UNION { { [i \in ids |-> IF i = e THEN "empty" ELSE "path"] : e \in ids \cup {0} } :
            ids \in SUBSET (1 .. MaxNodes) }

\* the paths a choice of PathArrays or PathMaps stands for
PathsOf(choice) ==
    [i \in DOMAIN choice |-> IF choice[i] = "path" THEN PathFor(i) ELSE EmptyPath]

\* no enrichMetadataWithImages call is modelled
EnrichIdle ==
    /\ given = [nodes |-> <<>>, globalVars |-> [styles |-> Styles],
                images |-> [present |-> FALSE, list |-> <<>>]]
    /\ metadata = given
    /\ imagePaths = [isArray |-> TRUE, paths |-> <<>>]
    /\ options = [useRelativePaths |-> [kind |-> "unset", base |-> EmptyPath],
                  localPath |-> Absent]
    /\ outcome = [status |-> "none", identity |-> FALSE, nodes |-> <<>>,
                  error |-> NoError]

\* no runWithConcurrency call is modelled
RunIdle ==
    /\ pc = "idle"
    /\ tasks = <<>>
    /\ limit = 1
    /\ taskSt = <<>>
    /\ taskVal = <<>>
    /\ results = <<>>
    /\ completed = 0
    /\ launched = 0
    /\ failed = FALSE
    /\ promise = [state |-> "pending", value |-> NoValue]
    /\ jobs = <<>>
    /\ firstRejected = 0
    /\ writes = <<>>
    /\ doneOrder = <<>>

\* no imageMap.set is modelled alone
PathIdle ==
    /\ download = [name |-> "", filePath |-> EmptyPath,
                   finalDimensions |-> [width |-> 0, height |-> 0],
                   wasCropped |-> FALSE]
    /\ pathPolicy = [kind |-> "unset", base |-> EmptyPath]
    /\ bundle = <<>>

\* no findImageAssets call is modelled alone
LocateIdle ==
    /\ design = [nodes |-> <<>>, globalVars |-> [styles |-> Styles]]
    /\ found = <<>>

\* no collapseSvgContainers call is modelled alone
CollapseIdle ==
    /\ hook = [node |-> [type |-> "DOCUMENT"], result |-> [type |-> "DOCUMENT"],
               children |-> <<>>]
    /\ hooked = <<>>

\* no simplification step is modelled
WalkIdle ==
    /\ rawNodes = <<>>
    /\ depth = <<>>
    /\ simplified = <<>>

\* no style registration is modelled
StylesIdle ==
    /\ styles = <<>>
    /\ refs = <<>>
    /\ stylesB = <<>>
    /\ refsB = <<>>

\* no entry point is called
EntryIdle ==
    /\ request = [fn |-> "none"]
    /\ remote = [fetch |-> <<>>]
    /\ calls = <<>>
    /\ apc = "start"
    /\ answer = [status |-> "none", message |-> <<>>, result |-> <<>>]

\* no parseAPIResponse call is modelled
ParseIdle ==
    /\ apiData = [kind |-> "none", nodes |-> <<>>, document |-> [children |-> <<>>],
                  components |-> <<>>, componentSets |-> <<>>, styles |-> <<>>]
    /\ parsed = <<>>

\* before the call: a metadata object (a node list, the styles, images
\* absent or of 0 .. MaxImages results) and an imagePaths argument
InitEnrich ==
    /\ StylesIdle
    /\ EntryIdle
    /\ ParseIdle
    /\ WalkIdle
    /\ CollapseIdle
    /\ RunIdle
    /\ PathIdle
    /\ LocateIdle
    /\ \E nodes \in NodeLists :
       \E n \in -1 .. MaxImages :
          given = [nodes |-> nodes,
                   globalVars |-> [styles |-> Styles],
                   images |-> IF n = -1
                              THEN [present |-> FALSE, list |-> <<>>]
                              ELSE [present |-> TRUE,
                                    list |-> ImagesOf(nodes, [styles |-> Styles], n)]]
    /\ metadata = given
    /\ \/ \E c \in PathArrays : imagePaths = [isArray |-> TRUE, paths |-> PathsOf(c)]
       \/ \E c \in PathMaps : imagePaths = [isArray |-> FALSE, paths |-> PathsOf(c)]
    /\ options = [useRelativePaths |-> [kind |-> "unset", base |-> EmptyPath],
                  localPath |-> Absent]
    /\ outcome = [status |-> "none", identity |-> FALSE, nodes |-> <<>>,
                  error |-> NoError]

NextEnrich ==
    enrichMetadataWithImages

SpecEnrich == InitEnrich /\ [][NextEnrich]_vars

\* before the call: a task list of 0 .. MaxTasks tasks and a limit
InitRun ==
    /\ StylesIdle
    /\ EntryIdle
    /\ ParseIdle
    /\ WalkIdle
    /\ CollapseIdle
    /\ EnrichIdle
    /\ PathIdle
    /\ LocateIdle
    /\ pc = "idle"
    /\ \E n \in 0 .. MaxTasks : tasks = [i \in 1 .. n |-> i]
    /\ limit \in Limits
    /\ taskSt = [i \in 1 .. Len(tasks) |-> "idle"]
    /\ taskVal = [i \in 1 .. Len(tasks) |-> NoValue]
    /\ results = NewArray(Len(tasks))
    /\ completed = 0
    /\ launched = 0
    /\ failed = FALSE
    /\ promise = [state |-> "pending", value |-> NoValue]
    /\ jobs = <<>>
    /\ firstRejected = 0
    /\ writes = [i \in 1 .. Len(tasks) |-> <<>>]
    /\ doneOrder = <<>>

NextRun ==
    \/ runWithConcurrency
    \/ \E i \in 1 .. N : \E v \in TaskValues : TaskFulfils(i, v)
    \/ \E i \in 1 .. N : TaskRejects(i)
    \/ RunThen
    \/ RunPass
    \/ RunCatch

SpecRun == InitRun /\ [][NextRun]_vars

\* task i, once started, settles
TaskSettles(i) ==
    /\ i <= N
    /\ \/ \E v \in TaskValues : TaskFulfils(i, v)
       \/ TaskRejects(i)

\* the executor with its scheduling: the call is made, every started task
\* settles, and the job queue runs the reactions queued on it
SpecRunFair ==
    /\ SpecRun
    /\ WF_vars(runWithConcurrency)
    /\ \A i \in 1 .. MaxTasks : WF_vars(TaskSettles(i))
    /\ WF_vars(RunThen \/ RunPass \/ RunCatch)

(* ---- the display path of one downloaded image (src/src/lib.ts) -------- *)

\* the characters paths are made of: both separators and two others
PathChars == {"/", "\\", "a", "b"}

\* every string of lo .. hi characters
StringsOf(lo, hi) ==
    UNION { [1 .. n -> PathChars] : n \in lo .. hi }

\* the values of options.useRelativePaths: true, false, and every base
\* path of at most MaxBaseLen characters (the empty string is one)
AllPathPolicies ==
    { [kind |-> k, base |-> EmptyPath] : k \in {"true", "false"} }
    \cup { [kind |-> "base", base |-> b] : b \in StringsOf(0, MaxBaseLen) }

\* imageAssets.forEach body for one asset whose result has a file path:
\* imageMap.set(asset.id, {...})
imageMapSet ==
    /\ bundle = <<>>
    /\ download.filePath # EmptyPath
    /\ bundle' = <<ImageBundle(download, download, pathPolicy)>>
    /\ UNCHANGED <<download, pathPolicy, notPath>>

\* before the set: an asset name, a result with a file path of
\* 1 .. MaxPathLen characters, and a path policy
InitPath ==
    /\ StylesIdle
    /\ EntryIdle
    /\ ParseIdle
    /\ WalkIdle
    /\ CollapseIdle
    /\ RunIdle
    /\ EnrichIdle
    /\ LocateIdle
    /\ \E fp \in StringsOf(1, MaxPathLen) :
          download = [name |-> "logo", filePath |-> fp,
                      finalDimensions |-> [width |-> 24, height |-> 16],
                      wasCropped |-> FALSE]
    /\ pathPolicy \in AllPathPolicies
    /\ bundle = <<>>

NextPath ==
    imageMapSet

SpecPath == InitPath /\ [][NextPath]_vars

(* ---- the image-asset locator taken alone (src/src/lib.ts) ------------- *)

\* globalVars.styles of the designs searched: Styles and an empty fill list
LocateStyles ==
    [s \in DOMAIN Styles \cup {"fill_NONE"} |->
        IF s = "fill_NONE" THEN [isArray |-> TRUE, items |-> <<>>] ELSE Styles[s]]

\* the kinds of node searched: the vector marker with and without a
\* fill; frames whose fills reference is absent, names a list with an
\* IMAGE paint, a list without one, an empty list, a style that is not a
\* list, or no style at all ("fill_GONE" is not a key)
LocateKinds ==
    { [type |-> "IMAGE-SVG", fills |-> Absent],
      [type |-> "IMAGE-SVG", fills |-> "fill_SOLID"],
      [type |-> "FRAME", fills |-> Absent],
      [type |-> "FRAME", fills |-> "fill_IMG"],
      [type |-> "FRAME", fills |-> "fill_SOLID"],
      [type |-> "FRAME", fills |-> "fill_NONE"],
      [type |-> "FRAME", fills |-> "layout_1"],
      [type |-> "FRAME", fills |-> "fill_GONE"] }

\* every forest of exactly n nodes of these kinds
RECURSIVE LocateForests(_)
LocateForests(n) ==
    IF n = 0
    THEN {<<>>}
    ELSE UNION { { <<[id |-> 0, name |-> "node", type |-> k.type, fills |-> k.fills,
                     children |-> c, downloadedImage |-> <<>>]>> \o rest :
                      k \in LocateKinds, c \in LocateForests(i),
                      rest \in LocateForests(n - 1 - i) } :
                 i \in 0 .. n - 1 }

\* one call of findImageAssets(design.nodes, design.globalVars)
findImageAssetsCall ==
    /\ Len(found) < 2
    /\ found' = Append(found, findImageAssets(design.nodes, design.globalVars))
    /\ UNCHANGED <<design, notLocate>>

\* before the calls: a design of at most MaxNodes nodes, ids unique
InitLocate ==
    /\ StylesIdle
    /\ EntryIdle
    /\ ParseIdle
    /\ WalkIdle
    /\ CollapseIdle
    /\ RunIdle
    /\ EnrichIdle
    /\ PathIdle
    /\ \E n \in 0 .. MaxNodes : \E f \in LocateForests(n) :
          design = [nodes |-> Label(f, 1, n), globalVars |-> [styles |-> LocateStyles]]
    /\ found = <<>>

NextLocate ==
    findImageAssetsCall

SpecLocate == InitLocate /\ [][NextLocate]_vars

(* ---- the svg collapse hook taken alone (src/unnamed/part_000) --------- *)

\* mutant of SVG_ELIGIBLE_TYPES: the marker the hook produces is not
\* eligible itself
SvgEligibleWithoutMarker ==
    {"STAR", "LINE", "ELLIPSE", "REGULAR_POLYGON", "RECTANGLE"}

\* SVG_ELIGIBLE_TYPES
SVG_ELIGIBLE_TYPES ==
    {"IMAGE-SVG", "STAR", "LINE", "ELLIPSE", "REGULAR_POLYGON", "RECTANGLE"}

\* mutant of collapseSvgContainers: the type is rewritten, the children
\* are returned all the same
collapseSvgContainersKeepsChildren(node, result, children) ==
    LET allChildrenAreSvgEligible ==
            \A i \in 1 .. Len(children) : children[i].type \in SVG_ELIGIBLE_TYPES
    IN  IF node.type \in {"FRAME", "GROUP", "INSTANCE"} /\ allChildrenAreSvgEligible
        THEN [result |-> [result EXCEPT !.type = "IMAGE-SVG"], children |-> children]
        ELSE [result |-> result, children |-> children]

\* mutant of collapseSvgContainers: a container is collapsed only when it
\* has a child
collapseSvgContainersNonEmpty(node, result, children) ==
    LET allChildrenAreSvgEligible ==
            /\ children # <<>>
            /\ \A i \in 1 .. Len(children) : children[i].type \in SVG_ELIGIBLE_TYPES
    IN  IF node.type \in {"FRAME", "GROUP", "INSTANCE"} /\ allChildrenAreSvgEligible
        THEN [result |-> [result EXCEPT !.type = "IMAGE-SVG"], children |-> <<>>]
        ELSE [result |-> result, children |-> children]

\* mutant of collapseSvgContainers: one eligible child is enough
collapseSvgContainersSomeChild(node, result, children) ==
    LET someChildIsSvgEligible ==
            \/ children = <<>>
            \/ \E i \in 1 .. Len(children) : children[i].type \in SVG_ELIGIBLE_TYPES
    IN  IF node.type \in {"FRAME", "GROUP", "INSTANCE"} /\ someChildIsSvgEligible
        THEN [result |-> [result EXCEPT !.type = "IMAGE-SVG"], children |-> <<>>]
        ELSE [result |-> result, children |-> children]

\* collapseSvgContainers(node, result, children): result as the call
\* leaves it, and the children returned
collapseSvgContainers(node, result, children) ==
    LET allChildrenAreSvgEligible ==
            \A i \in 1 .. Len(children) : children[i].type \in SVG_ELIGIBLE_TYPES
    IN  IF node.type \in {"FRAME", "GROUP", "INSTANCE"} /\ allChildrenAreSvgEligible
        THEN [result |-> [result EXCEPT !.type = "IMAGE-SVG"], children |-> <<>>]
        ELSE [result |-> result, children |-> children]

\* the types of the node the hook is called on: the three containers and
\* three others
HookNodeTypes == {"FRAME", "GROUP", "INSTANCE", "COMPONENT", "RECTANGLE", "TEXT"}

\* the types of processed children: the eligible ones and three others
HookChildTypes == SVG_ELIGIBLE_TYPES \cup {"TEXT", "FRAME", "VECTOR"}

\* one call of the hook
collapseSvgContainersCall ==
    /\ hooked = <<>>
    /\ hooked' = <<collapseSvgContainers(hook.node, hook.result, hook.children)>>
    /\ UNCHANGED <<hook, notCollapse>>

\* before the call: a raw node, the node being built (seeded with the raw
\* node's type) and 0 .. MaxKids processed children, numbered in order
InitCollapse ==
    /\ StylesIdle
    /\ EntryIdle
    /\ ParseIdle
    /\ WalkIdle
    /\ RunIdle
    /\ EnrichIdle
    /\ PathIdle
    /\ LocateIdle
    /\ \E t \in HookNodeTypes : \E n \in 0 .. MaxKids :
       \E types \in [1 .. n -> HookChildTypes] :
          hook = [node |-> [type |-> t], result |-> [type |-> t],
                  children |-> [i \in 1 .. n |-> [id |-> i, type |-> types[i]]]]
    /\ hooked = <<>>

NextCollapse ==
    collapseSvgContainersCall

SpecCollapse == InitCollapse /\ [][NextCollapse]_vars

(* ---- the simplification step of getFigmaMetadata (src/src/lib.ts) ----- *)

\* every forest of exactly n raw nodes: frames, which may have children,
\* and rectangles and texts, which have none
RECURSIVE RawForests(_)
RawForests(n) ==
    IF n = 0
    THEN {<<>>}
    ELSE UNION { { <<[id |-> 0, type |-> t, children |-> c]>> \o rest :
                      t \in IF i = 0 THEN {"FRAME", "RECTANGLE", "TEXT"} ELSE {"FRAME"},
                      c \in RawForests(i), rest \in RawForests(n - 1 - i) } :
                 i \in 0 .. n - 1 }

\* the values of options.depth tried: absent, 0 .. MaxDepth
Depths == {<<>>} \cup { <<d>> : d \in 0 .. MaxDepth }

\* depth || undefined
OrUndefined(d) == IF d = <<>> \/ d[1] = 0 THEN <<>> ELSE d

\* the walker on one raw node at a depth: the accumulator is seeded with
\* the node's id and type; at maxDepth the children are left out (children
\* is <<>>); otherwise the children are walked first, the afterChildren
\* hook is called and its returned list becomes the children (<<list>>)
RECURSIVE processNode(_, _, _)
processNode(node, currentDepth, maxDepth) ==
    LET result == [id |-> node.id, type |-> node.type] IN
    IF maxDepth # <<>> /\ currentDepth >= maxDepth[1]
    THEN [id |-> result.id, type |-> result.type, children |-> <<>>]
    ELSE LET children == [i \in 1 .. Len(node.children) |->
                             processNode(node.children[i], currentDepth + 1, maxDepth)]
             after == collapseSvgContainers(node, result, children)
         IN  [id |-> after.result.id, type |-> after.result.type,
              children |-> <<after.children>>]

\* extractFromDesign(rawNodes, extractors, {maxDepth, afterChildren}),
\* afterChildren being collapseSvgContainers: the simplified nodes
extractFromDesign(nodes, maxDepth) ==
    [i \in 1 .. Len(nodes) |-> processNode(nodes[i], 0, maxDepth)]

\* simplifyRawFigmaObject(rawApiResponse, allExtractors, {maxDepth: depth ||
\* undefined, afterChildren: collapseSvgContainers}) of getFigmaMetadata
simplifyRawFigmaObject ==
    /\ simplified = <<>>
    /\ simplified' = <<extractFromDesign(rawNodes, OrUndefined(depth))>>
    /\ UNCHANGED <<rawNodes, depth, notWalk>>

\* before the step: a raw document of 1 .. MaxRawNodes nodes, ids unique,
\* and options.depth
InitWalk ==
    /\ StylesIdle
    /\ EntryIdle
    /\ ParseIdle
    /\ RunIdle
    /\ EnrichIdle
    /\ PathIdle
    /\ LocateIdle
    /\ CollapseIdle
    /\ \E n \in 1 .. MaxRawNodes : \E f \in RawForests(n) : rawNodes = Label(f, 1, n)
    /\ depth \in Depths
    /\ simplified = <<>>

NextWalk ==
    simplifyRawFigmaObject

SpecWalk == InitWalk /\ [][NextWalk]_vars

(* ---- the style registry (src/unnamed/part_000, src/src/utils/common.ts) *)

\* getStyleName found no name
NoName == ""

\* the style names the source provides: one name, which a text style and
\* a fill style may both carry
StyleNames == {"Brand"}

\* the fill lists parsePaint gives: one paint, of one type or the other
FillValues ==
    { [isArray |-> TRUE, items |-> <<[type |-> t]>>, text |-> <<>>] :
        t \in {"SOLID", "IMAGE"} }

\* the text styles extractTextStyle gives: an object with one nested field
TextStyleValues ==
    { [isArray |-> FALSE, items |-> <<>>, text |-> <<[fontSize |-> z]>>] :
        z \in {"12", "14"} }

\* JSON.stringify(value), as the sequence of its tokens
RECURSIVE StringifyItems(_)
StringifyItems(items) ==
    IF items = <<>>
    THEN <<>>
    ELSE <<"{", "type", ":", Head(items).type, "}">>
         \o (IF Len(items) > 1 THEN <<",">> ELSE <<>>)
         \o StringifyItems(Tail(items))

JSONstringify(value) ==
    IF value.isArray
    THEN <<"[">> \o StringifyItems(value.items) \o <<"]">>
    ELSE <<"{">>
         \o (IF value.text = <<>> THEN <<>>
             ELSE <<"fontSize", ":", value.text[1].fontSize>>)
         \o <<"}">>

\* generateVarId(prefix): the prefix and six random characters, draw
\* standing for the characters Math.random picked
generateVarId(prefix, draw) == <<prefix, draw>>

\* the key a source-provided style name is
NameKey(styleName) == <<styleName, 0>>

\* globalVars.styles[id] = value: a key already there keeps its place
SetStyle(styles0, id, value) ==
    IF \E i \in 1 .. Len(styles0) : styles0[i].id = id
    THEN [i \in 1 .. Len(styles0) |->
             IF styles0[i].id = id THEN [id |-> id, value |-> value] ELSE styles0[i]]
    ELSE Append(styles0, [id |-> id, value |-> value])

\* mutant of findOrCreateVar: no scan, every value gets a new id
findOrCreateVarNoScan(styles0, value, prefix, draw) ==
    LET varId == generateVarId(prefix, draw)
    IN  [id |-> varId, styles |-> SetStyle(styles0, varId, value)]

\* findOrCreateVar(globalVars, value, prefix): the id returned and
\* globalVars.styles as the call leaves it
findOrCreateVar(styles0, value, prefix, draw) ==
    LET found0 == { i \in 1 .. Len(styles0) :
                      JSONstringify(styles0[i].value) = JSONstringify(value) }
    IN  IF found0 # {}
        THEN [id |-> styles0[CHOOSE i \in found0 : \A j \in found0 : i <= j].id,
              styles |-> styles0]
        ELSE LET varId == generateVarId(prefix, draw)
             IN  [id |-> varId, styles |-> SetStyle(styles0, varId, value)]

\* mutant of textExtractor: a named text style is stored under a
\* generated id
textExtractorNamedMinted(styles0, textStyle, styleName, draw) ==
    IF styleName # NoName
    THEN [id |-> generateVarId("style", draw),
          styles |-> SetStyle(styles0, generateVarId("style", draw), textStyle)]
    ELSE findOrCreateVar(styles0, textStyle, "style", draw)

\* textExtractor on a node with a text style: result.textStyle and
\* globalVars.styles after it
textExtractor(styles0, textStyle, styleName, draw) ==
    IF styleName # NoName
    THEN [id |-> NameKey(styleName),
          styles |-> SetStyle(styles0, NameKey(styleName), textStyle)]
    ELSE findOrCreateVar(styles0, textStyle, "style", draw)

\* visualsExtractor on a node with fills, without strokes and effects:
\* result.fills and globalVars.styles after it
visualsExtractor(styles0, fills, styleName, draw) ==
    IF styleName # NoName
    THEN [id |-> NameKey(styleName),
          styles |-> SetStyle(styles0, NameKey(styleName), fills)]
    ELSE findOrCreateVar(styles0, fills, "fill", draw)

\* the entry an extractor's registration leaves in the history
RefOf(value, out, styleName, field) ==
    [value |-> value, ref |-> out.id, named |-> styleName # NoName, field |-> field]

\* the next node's text style is extracted: in the first call, and when
\* twice is set in the second call too, the ids drawn in the two calls
\* being independent
TextExtractorStep(twice) ==
    \E textStyle \in TextStyleValues : \E styleName \in StyleNames \cup {NoName} :
    \E draw \in 1 .. MaxIds : \E drawB \in (IF twice THEN 1 .. MaxIds ELSE {1}) :
       LET out == textExtractor(styles, textStyle, styleName, draw)
           outB == textExtractor(stylesB, textStyle, styleName, drawB)
       IN  /\ styles' = out.styles
           /\ refs' = Append(refs, RefOf(textStyle, out, styleName, "textStyle"))
           /\ IF twice
              THEN /\ stylesB' = outB.styles
                   /\ refsB' = Append(refsB, RefOf(textStyle, outB, styleName, "textStyle"))
              ELSE UNCHANGED <<stylesB, refsB>>
           /\ UNCHANGED notStyles

\* the next node's fills are extracted
VisualsExtractorStep(twice) ==
    \E fills \in FillValues : \E styleName \in StyleNames \cup {NoName} :
    \E draw \in 1 .. MaxIds : \E drawB \in (IF twice THEN 1 .. MaxIds ELSE {1}) :
       LET out == visualsExtractor(styles, fills, styleName, draw)
           outB == visualsExtractor(stylesB, fills, styleName, drawB)
       IN  /\ styles' = out.styles
           /\ refs' = Append(refs, RefOf(fills, out, styleName, "fills"))
           /\ IF twice
              THEN /\ stylesB' = outB.styles
                   /\ refsB' = Append(refsB, RefOf(fills, outB, styleName, "fills"))
              ELSE UNCHANGED <<stylesB, refsB>>
           /\ UNCHANGED notStyles

\* one simplification call, registration by registration
RunTextExtractor ==
    Len(refs) < MaxRegs /\ TextExtractorStep(FALSE)

RunVisualsExtractor ==
    Len(refs) < MaxRegs /\ VisualsExtractorStep(FALSE)

\* two simplification calls on the same raw input, side by side
BothRunTextExtractor ==
    Len(refs) < MaxTwiceRegs /\ TextExtractorStep(TRUE)

BothRunVisualsExtractor ==
    Len(refs) < MaxTwiceRegs /\ VisualsExtractorStep(TRUE)

\* simplifyRawFigmaObject starts each call with globalVars.styles = {}
InitStyles ==
    /\ EntryIdle
    /\ ParseIdle
    /\ RunIdle
    /\ EnrichIdle
    /\ PathIdle
    /\ LocateIdle
    /\ CollapseIdle
    /\ WalkIdle
    /\ styles = <<>>
    /\ refs = <<>>
    /\ stylesB = <<>>
    /\ refsB = <<>>

NextStyles ==
    \/ RunTextExtractor
    \/ RunVisualsExtractor

SpecStyles == InitStyles /\ [][NextStyles]_vars

NextTwice ==
    \/ BothRunTextExtractor
    \/ BothRunVisualsExtractor

SpecTwice == InitStyles /\ [][NextTwice]_vars

(***************************************************************************)
(* The entry points: getFigmaMetadata, downloadFigmaImages and             *)
(* downloadFigmaFrameImage.  A URL is [host, kind, key, nodeId]: the host, *)
(* the path segment after it, the segment after that, and the value of the *)
(* node-id parameter as a sequence of characters (<<>> without one).       *)
(* Strings that are only tested for emptiness are "" or one value.  A      *)
(* message is the sequence of its pieces.                                  *)
(***************************************************************************)

\* figmaUrl.match(/figma\.com\/(file|design)\/([a-zA-Z0-9]+)/): <<>> for
\* null, else <<urlMatch[2]>>
urlMatchAnyKind(figmaUrl) ==
    IF figmaUrl.host = "www.figma.com" /\ figmaUrl.key # ""
    THEN <<figmaUrl.key>>
    ELSE <<>>

urlMatch(figmaUrl) ==
    IF /\ figmaUrl.host = "www.figma.com"
       /\ figmaUrl.kind \in {"file", "design"}
       /\ figmaUrl.key # ""
    THEN <<figmaUrl.key>>
    ELSE <<>>

\* figmaUrl.match(/node-id=([^&]+)/): <<>> for null, else <<nodeIdMatch[1]>>
nodeIdMatch(figmaUrl) ==
    IF figmaUrl.nodeId = <<>> THEN <<>> ELSE <<figmaUrl.nodeId>>

\* .replace(/-/g, ":")
DashesToColons(id) ==
    [i \in 1 .. Len(id) |-> IF id[i] = "-" THEN ":" ELSE id[i]]

\* .toLowerCase() of a character or of a file extension
toLowerCase(c) ==
    CASE c = "A" -> "a"
      [] c = "PNG" -> "png"
      [] OTHER -> c

\* .replace(/[^a-z0-9]/gi, '-')
ReplaceNonAlphanumerics(name) ==
    [i \in 1 .. Len(name) |-> IF name[i] \in {"a", "A", "7"} THEN name[i] ELSE "-"]

\* .replace(/-+/g, '-')
RECURSIVE CollapseHyphens(_)
CollapseHyphens(name) ==
    IF Len(name) <= 1
    THEN name
    ELSE IF name[1] = "-" /\ name[2] = "-"
         THEN CollapseHyphens(Tail(name))
         ELSE <<name[1]>> \o CollapseHyphens(Tail(name))

\* .replace(/^-|-$/g, '')
TrimHyphens(name) ==
    LET t == IF name # <<>> /\ name[1] = "-" THEN Tail(name) ELSE name
    IN  IF t # <<>> /\ t[Len(t)] = "-" THEN SubSeq(t, 1, Len(t) - 1) ELSE t

\* mutant of sanitizeFileName: runs of hyphens are left as they are
sanitizeFileNameKeepsRuns(name) ==
    LET t == TrimHyphens(ReplaceNonAlphanumerics(name))
    IN  [i \in 1 .. Len(t) |-> toLowerCase(t[i])]

\* sanitizeFileName(name)
sanitizeFileName(name) ==
    LET t == TrimHyphens(CollapseHyphens(ReplaceNonAlphanumerics(name)))
    IN  [i \in 1 .. Len(t) |-> toLowerCase(t[i])]

\* a FigmaService call as the history keeps it
ServiceCall(op, fileKey, nodeId, localPath, items, pngScale, returnBuffer) ==
    [op |-> op, fileKey |-> fileKey, nodeId |-> nodeId, localPath |-> localPath,
     items |-> items, pngScale |-> pngScale, returnBuffer |-> returnBuffer]

\* throw new Error(message), ending the call
Throw(message) ==
    /\ answer' = [status |-> "threw", message |-> message, result |-> <<>>]
    /\ apc' = "done"

\* return value, ending the call
Return(value) ==
    /\ answer' = [status |-> "returned", message |-> <<>>, result |-> <<value>>]
    /\ apc' = "done"

\* the results figmaService.downloadImages resolves with: none, or one per
\* requested item, in order
DownloadResultsFor(items) ==
    IF remote.render = "empty"
    THEN <<>>
    ELSE [i \in 1 .. Len(items) |->
             [filePath |-> PathFor(i),
              finalDimensions |-> [width |-> 10 * i, height |-> 5 * i],
              wasCropped |-> FALSE]]

\* the message figmaService.downloadImages rejects with
RenderError == <<"Image request failed with status 500">>

\* imageAssets.map(asset => ({nodeId: asset.id,
\*     fileName: sanitizeFileName(asset.name) + `.${imageFormat}`}))
imageNodesOf(imageAssets, imageFormat) ==
    [i \in 1 .. Len(imageAssets) |->
        [nodeId |-> imageAssets[i].id,
         fileName |-> sanitizeFileName(imageAssets[i].name) \o <<".", imageFormat>>]]

\* getFigmaMetadata(figmaUrl, options), up to its first await
getFigmaMetadata ==
    /\ apc = "start"
    /\ request.fn = "getFigmaMetadata"
    /\ UNCHANGED <<request, remote, notEntry>>
    /\ IF request.apiKey = "" /\ request.oauthToken = ""
       THEN Throw(<<"Either apiKey or oauthToken is required">>) /\ UNCHANGED calls
       ELSE IF urlMatch(request.figmaUrl) = <<>>
            THEN Throw(<<"Invalid Figma URL format">>) /\ UNCHANGED calls
            ELSE LET fileKey == urlMatch(request.figmaUrl)[1]
                     m == nodeIdMatch(request.figmaUrl)
                 IN  /\ calls' = Append(calls,
                            IF m # <<>>
                            THEN ServiceCall("getRawNode", fileKey, DashesToColons(m[1]),
                                             "", <<>>, <<>>, FALSE)
                            ELSE ServiceCall("getRawFile", fileKey, <<>>,
                                             "", <<>>, <<>>, FALSE))
                     /\ apc' = "fetching"
                     /\ UNCHANGED answer

\* getFigmaMetadata resumed when getRawNode / getRawFile has settled:
\* simplifyRawFigmaObject gives remote.design, and with downloadImages the
\* assets found are requested
getFigmaMetadataFetched ==
    /\ apc = "fetching"
    /\ request.fn = "getFigmaMetadata"
    /\ UNCHANGED <<request, remote, notEntry>>
    /\ LET fileKey == urlMatch(request.figmaUrl)[1]
           imageAssets == findImageAssets(remote.design.nodes, remote.design.globalVars)
       IN  IF remote.fetch # <<>>
           THEN Throw(<<"Failed to fetch Figma data: ">> \o remote.fetch)
                /\ UNCHANGED calls
           ELSE IF ~request.downloadImages
                THEN Return([nodes |-> remote.design.nodes, images |-> <<>>])
                     /\ UNCHANGED calls
                ELSE IF ~request.returnBuffer /\ request.localPath = ""
                     THEN Throw(<<"Failed to fetch Figma data: ",
                                  "localPath is required when downloadImages is true and returnBuffer is false">>)
                          /\ UNCHANGED calls
                     ELSE IF Len(imageAssets) > 0
                          THEN /\ calls' = Append(calls,
                                     ServiceCall("downloadImages", fileKey, <<>>,
                                         request.localPath,
                                         imageNodesOf(imageAssets, request.imageFormat),
                                         IF request.imageFormat = "png" THEN <<2>> ELSE <<>>,
                                         request.returnBuffer))
                               /\ apc' = "rendering"
                               /\ UNCHANGED answer
                          ELSE Return([nodes |-> remote.design.nodes, images |-> <<>>])
                               /\ UNCHANGED calls

\* getFigmaMetadata resumed when downloadImages has settled
getFigmaMetadataRendered ==
    /\ apc = "rendering"
    /\ request.fn = "getFigmaMetadata"
    /\ UNCHANGED <<request, remote, calls, notEntry>>
    /\ LET imageAssets == findImageAssets(remote.design.nodes, remote.design.globalVars)
           downloadResults == DownloadResultsFor(calls[Len(calls)].items)
       IN  IF remote.render = "fails"
           THEN Throw(<<"Failed to fetch Figma data: ">> \o RenderError)
           ELSE IF request.returnBuffer
                THEN Return([nodes |-> remote.design.nodes,
                             images |-> <<downloadResults>>])
                ELSE Return([nodes |-> enrichNodesWithImages(remote.design.nodes,
                                           imageAssets, downloadResults,
                                           [kind |-> "true", base |-> EmptyPath]).enriched,
                             images |-> <<>>])

\* downloadFigmaImages(figmaUrl, nodes, options), up to its await
downloadFigmaImages ==
    /\ apc = "start"
    /\ request.fn = "downloadFigmaImages"
    /\ UNCHANGED <<request, remote, notEntry>>
    /\ IF request.apiKey = "" /\ request.oauthToken = ""
       THEN Throw(<<"Either apiKey or oauthToken is required">>) /\ UNCHANGED calls
       ELSE IF ~request.returnBuffer /\ request.localPath = ""
            THEN Throw(<<"localPath is required when returnBuffer is false">>)
                 /\ UNCHANGED calls
            ELSE IF urlMatch(request.figmaUrl) = <<>>
                 THEN Throw(<<"Invalid Figma URL format">>) /\ UNCHANGED calls
                 ELSE LET fileKey == urlMatch(request.figmaUrl)[1]
                          processedNodes ==
                              [i \in 1 .. Len(request.nodes) |->
                                  [request.nodes[i] EXCEPT
                                      !.nodeId = DashesToColons(@)]]
                      IN  /\ calls' = Append(calls,
                                 ServiceCall("downloadImages", fileKey, <<>>,
                                     request.localPath, processedNodes, <<2>>,
                                     request.returnBuffer))
                          /\ apc' = "rendering"
                          /\ UNCHANGED answer

\* downloadFigmaImages resumed when downloadImages has settled
downloadFigmaImagesRendered ==
    /\ apc = "rendering"
    /\ request.fn = "downloadFigmaImages"
    /\ UNCHANGED <<request, remote, calls, notEntry>>
    /\ IF remote.render = "fails"
       THEN Throw(<<"Failed to download images: ">> \o RenderError)
       ELSE Return([nodes |-> <<>>,
                    images |-> <<DownloadResultsFor(calls[Len(calls)].items)>>])

\* downloadFigmaFrameImage(figmaUrl, options), up to its await
downloadFigmaFrameImage ==
    /\ apc = "start"
    /\ request.fn = "downloadFigmaFrameImage"
    /\ UNCHANGED <<request, remote, notEntry>>
    /\ IF request.apiKey = "" /\ request.oauthToken = ""
       THEN Throw(<<"Either apiKey or oauthToken is required">>) /\ UNCHANGED calls
       ELSE IF ~request.returnBuffer /\ (request.localPath = "" \/ request.fileName = <<>>)
            THEN Throw(<<"localPath and fileName are required when returnBuffer is false">>)
                 /\ UNCHANGED calls
            ELSE IF urlMatch(request.figmaUrl) = <<>>
                 THEN Throw(<<"Invalid Figma URL format">>) /\ UNCHANGED calls
                 ELSE IF nodeIdMatch(request.figmaUrl) = <<>>
                      THEN Throw(<<"No frame node-id found in URL. Please provide a Figma URL with a node-id parameter (e.g., ?node-id=123-456)">>)
                           /\ UNCHANGED calls
                      ELSE IF /\ request.fileName # <<>>
                              /\ toLowerCase(request.fileName[Len(request.fileName)])
                                    # request.imageFormat
                           THEN Throw(<<"Filename must end with .", request.imageFormat,
                                        " for ", request.imageFormat, " format">>)
                                /\ UNCHANGED calls
                           ELSE LET fileKey == urlMatch(request.figmaUrl)[1]
                                    nodeId == DashesToColons(nodeIdMatch(request.figmaUrl)[1])
                                    imageNode ==
                                        [nodeId |-> nodeId,
                                         fileName |-> IF request.fileName # <<>>
                                                      THEN request.fileName
                                                      ELSE <<"temp", ".", request.imageFormat>>]
                                IN  /\ calls' = Append(calls,
                                           ServiceCall("downloadImages", fileKey, <<>>,
                                               request.localPath, <<imageNode>>,
                                               IF request.imageFormat = "png"
                                               THEN <<2>> ELSE <<>>,
                                               request.returnBuffer))
                                    /\ apc' = "rendering"
                                    /\ UNCHANGED answer

\* downloadFigmaFrameImage resumed when downloadImages has settled
downloadFigmaFrameImageRendered ==
    /\ apc = "rendering"
    /\ request.fn = "downloadFigmaFrameImage"
    /\ UNCHANGED <<request, remote, calls, notEntry>>
    /\ LET downloaded == DownloadResultsFor(calls[Len(calls)].items)
           nodeId == calls[Len(calls)].items[1].nodeId
       IN  IF remote.render = "fails"
           THEN Throw(<<"Failed to download frame image: ">> \o RenderError)
           ELSE IF Len(downloaded) = 0
                THEN Throw(<<"Failed to download frame image: ",
                             "Failed to download image for frame ">> \o nodeId)
                ELSE Return([nodes |-> <<>>, images |-> <<<<downloaded[1]>>>>])

\* the URLs tried
Urls ==
    [host : {"www.figma.com", "example.com"},
     kind : {"file", "design", "proto"},
     key : {"", "abc123"},
     nodeId : {<<>>, <<"1", "-", "2">>}]

\* a call of an entry point
Request(fn, apiKey, oauthToken, figmaUrl, downloadImages, localPath, returnBuffer, imageFormat, fileName, nodes) ==
    [fn |-> fn, apiKey |-> apiKey, oauthToken |-> oauthToken, figmaUrl |-> figmaUrl,
     downloadImages |-> downloadImages, localPath |-> localPath,
     returnBuffer |-> returnBuffer, imageFormat |-> imageFormat,
     fileName |-> fileName, nodes |-> nodes]

\* the calls tried: every combination of credentials, URL and the options
\* the entry point tests before its first FigmaService call
Requests ==
    UNION { UNION {
        { Request("getFigmaMetadata", a, o, u, d, l, b, "png", <<>>, <<>>) :
              d \in BOOLEAN, l \in {"", "/out"}, b \in BOOLEAN }
        \cup
        { Request("downloadFigmaImages", a, o, u, FALSE, l, b, "png", <<>>,
                  <<[nodeId |-> <<"1", "-", "2">>, fileName |-> <<"a", ".", "png">>]>>) :
              l \in {"", "/out"}, b \in BOOLEAN }
        \cup
        { Request("downloadFigmaFrameImage", a, o, u, FALSE, l, b, "png", f, <<>>) :
              l \in {"", "/out"}, b \in BOOLEAN,
              f \in {<<>>, <<"frame", ".", "png">>, <<"frame", ".", "PNG">>,
                     <<"frame", ".", "svg">>} }
        : a \in {"", "figd_key"}, o \in {"", "oauth_token"} } : u \in Urls }

\* a simplified node of a design
DesignNode(id, name, type, fills, children) ==
    [id |-> id, name |-> name, type |-> type, fills |-> fills,
     children |-> children, downloadedImage |-> <<>>]

\* the designs behind the URL: without an asset, and with a vector asset
\* inside a frame
Designs ==
    { [nodes |-> <<DesignNode(1, <<"a">>, "FRAME", "fill_SOLID", <<>>)>>,
       globalVars |-> [styles |-> Styles]],
      [nodes |-> <<DesignNode(1, <<"a">>, "FRAME", "fill_SOLID",
                       <<DesignNode(2, <<"A", " ", "7">>, "IMAGE-SVG", Absent, <<>>)>>)>>,
       globalVars |-> [styles |-> Styles]] }

\* how the fetch can end: fulfilled (<<>>), or rejected with a message
\* that does or does not name the file
FetchOutcomes ==
    { <<>>,
      <<"Request failed with status 403">>,
      <<"Failed to make request to Figma API endpoint /files/", "abc123">> }

\* what lies behind FigmaService: everything works, or one of the two
\* calls fails, or the download yields no result
Remotes ==
    { [fetch |-> f, design |-> d, render |-> "ok"] : f \in FetchOutcomes, d \in Designs }
    \cup { [fetch |-> <<>>, design |-> d, render |-> r] :
             d \in Designs, r \in {"fails", "empty"} }

InitEntry ==
    /\ RunIdle
    /\ EnrichIdle
    /\ PathIdle
    /\ LocateIdle
    /\ CollapseIdle
    /\ WalkIdle
    /\ StylesIdle
    /\ ParseIdle
    /\ request \in Requests
    /\ remote \in Remotes
    /\ calls = <<>>
    /\ apc = "start"
    /\ answer = [status |-> "none", message |-> <<>>, result |-> <<>>]

NextEntry ==
    \/ getFigmaMetadata
    \/ getFigmaMetadataFetched
    \/ getFigmaMetadataRendered
    \/ downloadFigmaImages
    \/ downloadFigmaImagesRendered
    \/ downloadFigmaFrameImage
    \/ downloadFigmaFrameImageRendered

SpecEntry == InitEntry /\ [][NextEntry]_vars

\* the characters of node names: a lower-case and an upper-case letter, a
\* digit, a hyphen and a space
NameChars == {"a", "A", "7", "-", " "}

\* the names of at most n characters
NamesUpTo(n) == UNION { [1 .. k -> NameChars] : k \in 0 .. n }

\* the names tried for a second asset
SecondNames == { <<"a">>, <<"a", "-", "a">>, <<" ">> }

\* the designs tried in auto mode: a vector asset alone, two assets side by
\* side, an image-filled frame holding a second asset, and a second asset
\* in a plain frame ahead of the first (node ids not in document order)
AutoDesigns ==
    LET Leaf(id, name) == DesignNode(id, name, "IMAGE-SVG", Absent, <<>>)
        shapes(n, m) ==
            { <<Leaf(1, n), Leaf(2, m)>>,
              <<DesignNode(1, n, "FRAME", "fill_IMG", <<Leaf(2, m)>>)>>,
              <<DesignNode(3, <<"a">>, "FRAME", "fill_SOLID", <<Leaf(2, m)>>),
                Leaf(1, n)>> }
    IN  { [nodes |-> nodes, globalVars |-> [styles |-> Styles]] :
            nodes \in { <<Leaf(1, n)>> : n \in NamesUpTo(MaxNameLen) }
                      \cup UNION { shapes(n, m) :
                                     n \in NamesUpTo(MaxNameLen), m \in SecondNames } }

\* getFigmaMetadata called in auto mode (downloadImages: true) on a file
\* URL, to disk or to buffers, for png or svg, everything behind
\* FigmaService working
InitAuto ==
    /\ RunIdle
    /\ EnrichIdle
    /\ PathIdle
    /\ LocateIdle
    /\ CollapseIdle
    /\ WalkIdle
    /\ StylesIdle
    /\ ParseIdle
    /\ \E b \in BOOLEAN : \E imageFormat \in {"png", "svg"} :
          request = Request("getFigmaMetadata", "figd_key", "",
                            [host |-> "www.figma.com", kind |-> "design",
                             key |-> "abc123", nodeId |-> <<>>],
                            TRUE, "/out", b, imageFormat, <<>>, <<>>)
    /\ \E d \in AutoDesigns : remote = [fetch |-> <<>>, design |-> d, render |-> "ok"]
    /\ calls = <<>>
    /\ apc = "start"
    /\ answer = [status |-> "none", message |-> <<>>, result |-> <<>>]

NextAuto ==
    \/ getFigmaMetadata
    \/ getFigmaMetadataFetched
    \/ getFigmaMetadataRendered

SpecAuto == InitAuto /\ [][NextAuto]_vars

(***************************************************************************)
(* parseAPIResponse.  A raw response is [kind, nodes, document,            *)
(* components, componentSets, styles]: of kind "nodes" it is a             *)
(* GetFileNodesResponse, nodes holding the per-subtree responses in the    *)
(* order of Object.values (the keys are node ids such as "1:2", never      *)
(* array indices, so that is the order of the response); of kind "file"    *)
(* it is a GetFileResponse with document.children and its own tables.  A   *)
(* table is a function from keys to entries; an optional table or flag is  *)
(* <<>> when absent and <<value>> when present.                            *)
(***************************************************************************)

\* isVisible(element): element.visible ?? true
isVisible(element) ==
    IF element.visible = <<>> THEN TRUE ELSE element.visible[1]

\* mutant of ObjectAssign: an entry already in the target is kept
ObjectAssignKeepsFirst(target, source) ==
    [k \in DOMAIN target \cup DOMAIN source |->
        IF k \in DOMAIN target THEN target[k] ELSE source[k]]

\* Object.assign(target, source): the target afterwards
ObjectAssign(target, source) ==
    [k \in DOMAIN target \cup DOMAIN source |->
        IF k \in DOMAIN source THEN source[k] ELSE target[k]]

\* nodeResponses.forEach(...) for one of the three tables: the aggregate
\* after the responses were handled in order, a response without the
\* table being passed over
RECURSIVE Aggregated(_, _, _)
Aggregated(nodeResponses, table, aggregate) ==
    IF nodeResponses = <<>>
    THEN aggregate
    ELSE LET nodeResponse == Head(nodeResponses) IN
         Aggregated(Tail(nodeResponses), table,
                    IF nodeResponse[table] # <<>>
                    THEN ObjectAssign(aggregate, nodeResponse[table][1])
                    ELSE aggregate)

\* .filter(isVisible)
RECURSIVE FilterVisible(_)
FilterVisible(elements) ==
    IF elements = <<>>
    THEN <<>>
    ELSE (IF isVisible(Head(elements)) THEN <<Head(elements)>> ELSE <<>>)
         \o FilterVisible(Tail(elements))

\* parseAPIResponse(data)
parseAPIResponse(data) ==
    IF data.kind = "nodes"
    THEN LET nodeResponses == data.nodes IN
         [rawNodes |-> FilterVisible([i \in 1 .. Len(nodeResponses) |->
                                         nodeResponses[i].document]),
          extraStyles |-> Aggregated(nodeResponses, "styles", <<>>),
          components |-> Aggregated(nodeResponses, "components", <<>>),
          componentSets |-> Aggregated(nodeResponses, "componentSets", <<>>)]
    ELSE [rawNodes |-> FilterVisible(data.document.children),
          extraStyles |-> IF data.styles # <<>> THEN data.styles[1] ELSE <<>>,
          components |-> IF data.components # <<>>
                         THEN ObjectAssign(<<>>, data.components[1]) ELSE <<>>,
          componentSets |-> IF data.componentSets # <<>>
                            THEN ObjectAssign(<<>>, data.componentSets[1]) ELSE <<>>]

\* one call of parseAPIResponse
parseAPIResponseCall ==
    /\ parsed = <<>>
    /\ parsed' = <<parseAPIResponse(apiData)>>
    /\ UNCHANGED <<apiData, notParse>>

\* the subtree roots tried for the response at position i: visible absent,
\* true or false, without children or with one invisible child
Documents(i) ==
    { [id |-> i, visible |-> v, children |-> c] :
        v \in {<<>>, <<TRUE>>, <<FALSE>>},
        c \in { <<>>, <<[id |-> 10 + i, visible |-> <<FALSE>>, children |-> <<>>]>> } }

\* the tables tried for the response at position i, its entries marked
\* with i: none, the same key in all three, or different keys
Tables(i) ==
    LET T(keys) == <<[k \in keys |-> [key |-> k, from |-> i]]>> IN
    { [components |-> <<>>, componentSets |-> <<>>, styles |-> <<>>],
      [components |-> T({"k1"}), componentSets |-> T({"k1"}), styles |-> T({"k1"})],
      [components |-> T({"k1", "k2"}), componentSets |-> <<>>, styles |-> T({"k2"})],
      [components |-> T({"k2"}), componentSets |-> T({"k2"}), styles |-> <<>>] }

\* the responses of n subtrees or top-level children, in order
RECURSIVE NodeResponses(_)
NodeResponses(n) ==
    IF n = 0
    THEN {<<>>}
    ELSE { Append(rest, [document |-> d, components |-> t.components,
                         componentSets |-> t.componentSets, styles |-> t.styles]) :
             rest \in NodeResponses(n - 1), d \in Documents(n), t \in Tables(n) }

\* before the call: a GetFileNodesResponse of 0 .. MaxResponses subtrees,
\* or a GetFileResponse whose document has 0 .. MaxResponses children
InitParse ==
    /\ RunIdle
    /\ EnrichIdle
    /\ PathIdle
    /\ LocateIdle
    /\ CollapseIdle
    /\ WalkIdle
    /\ StylesIdle
    /\ EntryIdle
    /\ \E n \in 0 .. MaxResponses : \E rs \in NodeResponses(n) :
          \/ apiData = [kind |-> "nodes", nodes |-> rs,
                        document |-> [children |-> <<>>],
                        components |-> <<>>, componentSets |-> <<>>, styles |-> <<>>]
          \/ \E t \in Tables(0) :
                apiData = [kind |-> "file", nodes |-> <<>>,
                           document |-> [children |->
                                            [i \in 1 .. n |-> rs[i].document]],
                           components |-> t.components,
                           componentSets |-> t.componentSets, styles |-> t.styles]
    /\ parsed = <<>>

NextParse ==
    parseAPIResponseCall

SpecParse == InitParse /\ [][NextParse]_vars

(* ---- the executor's claims (checked under SpecRun) -------------------- *)

\* tasks started whose promise has not settled
Outstanding == {i \in 1 .. N : taskSt[i] = "running"}

\* nothing is left to happen: no task pending, no reaction queued
Quiescent ==
    /\ pc = "called"
    /\ Outstanding = {}
    /\ jobs = <<>>

\* C1: for every limit >= 1 and in every reachable state, the number of
\* tasks started and not yet settled is at most limit.
C1_OutstandingAtMostLimit ==
    (pc = "called" /\ limit >= 1) => Cardinality(Outstanding) <= limit

\* C1 witness: the limit is smaller than the task list, a completion has
\* refilled the pool, and the pool is full again.
C1_Witness ==
    /\ limit >= 1
    /\ limit < N
    /\ completed >= 1
    /\ launched > limit
    /\ Cardinality(Outstanding) = limit

\* C2: whenever the call resolves, the resolved array is as long as tasks
\* and its element i is the value task i fulfilled with.
C2_ResolvedInTaskOrder ==
    promise.state = "resolved" =>
        /\ Len(promise.value) = N
        /\ \A i \in 1 .. N :
              /\ taskVal[i] \in TaskValues
              /\ promise.value[i] = taskVal[i]

\* C2 witness: a resolved call whose tasks completed out of index order,
\* with different values, under a limit smaller than the task list.
C2_Witness ==
    /\ promise.state = "resolved"
    /\ N >= 3
    /\ limit = 2
    /\ doneOrder[1] # 1
    /\ taskVal[1] # taskVal[2]

\* C3: once a task has rejected the call never resolves; when it rejects,
\* the reason is that of the task that rejected first in time; and it has
\* rejected as soon as the queued reactions have run.
C3_FailFast ==
    /\ firstRejected # 0 => promise.state # "resolved"
    /\ promise.state = "rejected" => promise.value = ErrOf(firstRejected)
    /\ (firstRejected # 0 /\ jobs = <<>>) => promise.state = "rejected"

\* C3 witness: the call has rejected although every other task fulfilled
\* afterwards and had its callback run.
C3_Witness ==
    /\ promise.state = "rejected"
    /\ N >= 3
    /\ jobs = <<>>
    /\ \A i \in 1 .. N : i # firstRejected => taskSt[i] = "fulfilled"
    /\ Len(doneOrder) = N - 1

\* C4 as stated: over any execution slot i is written exactly once, by
\* task i. Read on executions that have run to their end.
C4_EverySlotWrittenOnce ==
    (Quiescent /\ promise.state # "pending") =>
        \A i \in 1 .. N : writes[i] = <<i>>

\* C4 amended: slot i is written at most once and only by task i, a slot
\* holds a value exactly when it was written, and every slot has been
\* written exactly once when the call resolves.
C4_SlotWrittenAtMostOnceByOwner ==
    /\ \A i \in 1 .. N :
          /\ writes[i] \in {<<>>, <<i>>}
          /\ (results[i] = Empty) <=> (writes[i] = <<>>)
    /\ promise.state = "resolved" => \A i \in 1 .. N : writes[i] = <<i>>

\* C4 witness: a rejected call in which one slot was written by its task
\* and the slot of the rejected task was never written.
C4_Witness ==
    /\ promise.state = "rejected"
    /\ \E i \in 1 .. N : writes[i] = <<i>>
    /\ \E j \in 1 .. N : taskSt[j] = "rejected" /\ writes[j] = <<>>

\* C5: when limit >= length(tasks) every task is started by the call
\* itself: launched equals the task count from the call on, and in the
\* states where no task has settled yet all tasks are outstanding at once.
C5_AllStartedByCall ==
    (pc = "called" /\ limit >= N) =>
        /\ launched = N
        /\ (\A i \in 1 .. N : taskSt[i] \in {"idle", "running"})
              => Outstanding = 1 .. N

\* C5 witness: right after the call, several tasks, all outstanding.
C5_Witness ==
    /\ pc = "called"
    /\ N >= 2
    /\ limit >= N
    /\ Outstanding = 1 .. N
    /\ completed = 0

\* C6: called with an empty task list, the call resolves to an empty list
\* and starts nothing, whatever the limit.
C6_EmptyResolvesEmpty ==
    (pc = "called" /\ N = 0) =>
        /\ promise = [state |-> "resolved", value |-> <<>>]
        /\ launched = 0
        /\ jobs = <<>>

\* C6 witness: the call on an empty list with a limit that admits no task.
C6_Witness ==
    /\ pc = "called"
    /\ N = 0
    /\ limit <= 0
    /\ promise.state = "resolved"

(* ---- the enrichment claims (checked under SpecEnrich) ----------------- *)

\* all nodes of a forest in document order: a node, then its descendants,
\* then its later siblings
RECURSIVE Flatten(_)
Flatten(f) ==
    IF f = <<>> THEN <<>>
    ELSE <<Head(f)>> \o Flatten(Head(f).children) \o Flatten(Tail(f))

\* a forest with every downloadedImage field taken away
RECURSIVE Strip(_)
Strip(f) ==
    [i \in 1 .. Len(f) |->
        [f[i] EXCEPT !.downloadedImage = <<>>, !.children = Strip(f[i].children)]]

\* the assets the locator discovers in the metadata the caller passed
Assets == findImageAssets(given.nodes, given.globalVars)

\* metadata.images is there and holds a result
HasImages == given.images.present /\ Len(given.images.list) > 0

\* the ids of the discovered assets that the mapping gives no path
Unmapped ==
    {Assets[i].id : i \in {j \in 1 .. Len(Assets) :
                              NoPathFor(imagePaths.paths, Assets[j].id)}}

\* the file path the call had to attach to the node of this id (<<>> for
\* none): by position in the locator's order, or by the node's own id
ExpectedPath(id) ==
    LET at == {i \in 1 .. Len(Assets) : Assets[i].id = id} IN
    IF at = {} THEN <<>>
    ELSE IF imagePaths.isArray
         THEN LET i == CHOOSE j \in at : TRUE IN
              IF i <= Len(imagePaths.paths) /\ imagePaths.paths[i] # EmptyPath
              THEN <<imagePaths.paths[i]>> ELSE <<>>
         ELSE <<imagePaths.paths[id]>>

\* C7: a positional array whose length differs from the number of assets
\* the locator discovers makes the call fail with the count-mismatch
\* error. Stated for metadata.images holding results of discovered assets
\* only (at least one, as a download that lost some assets leaves them)
\* and for arrays of non-empty paths.
C7_CountMismatchRaises ==
    (/\ outcome.status # "none"
     /\ HasImages
     /\ \A i \in 1 .. Len(given.images.list) :
           \E j \in 1 .. Len(Assets) : given.images.list[i].nodeId = Assets[j].id
     /\ imagePaths.isArray
     /\ \A i \in 1 .. Len(imagePaths.paths) : imagePaths.paths[i] # EmptyPath
     /\ Len(imagePaths.paths) # Len(Assets))
    => (/\ outcome.status = "threw"
        /\ outcome.error.kind = "NumberOfImagePathsMustMatch")

C9_PathsGoToTheirOwnNodes ==
    (outcome.status = "returned" /\ ~outcome.identity) =>
        LET all == Flatten(given.nodes)
            qualifying == SelectSeq(all, LAMBDA n : isImageAsset(n, given.globalVars))
            info == getImageNodeInfo(given)
            out == Flatten(outcome.nodes)
        IN  /\ info = [i \in 1 .. Len(qualifying) |->
                          [nodeId |-> qualifying[i].id, name |-> qualifying[i].name]]
            /\ Len(out) = Len(all)
            /\ \A k \in 1 .. Len(out) :
                  /\ out[k].id = all[k].id
                  /\ IF ExpectedPath(out[k].id) = <<>>
                     THEN out[k].downloadedImage = <<>>
                     ELSE /\ out[k].downloadedImage # <<>>
                          /\ out[k].downloadedImage[1].filePath
                                = ExpectedPath(out[k].id)[1]

\* C9 witness: an array of paths was attached to several assets, one of
\* them a child of another.
C9_Witness ==
    /\ outcome.status = "returned"
    /\ imagePaths.isArray
    /\ Len(Assets) >= 2
    /\ Assets[1].children # <<>>
    /\ Assets[2].id = Assets[1].children[1].id
    /\ \E k \in 1 .. Len(Flatten(outcome.nodes)) :
          LET n == Flatten(outcome.nodes)[k] IN
          /\ n.id = Assets[2].id
          /\ n.downloadedImage # <<>>
          /\ n.downloadedImage[1].filePath = imagePaths.paths[2]

\* C10: the tree the caller passed is left as it was, and the returned
\* tree is that tree with a downloadedImage added on exactly the nodes
\* whose id has a result with a file path.
C10_InputUntouchedOutputSameShape ==
    /\ metadata = given
    /\ outcome.status = "returned" =>
          /\ Strip(outcome.nodes) = given.nodes
          /\ ~outcome.identity =>
                \A k \in 1 .. Len(Flatten(outcome.nodes)) :
                    LET n == Flatten(outcome.nodes)[k] IN
                    (n.downloadedImage # <<>>) <=> (ExpectedPath(n.id) # <<>>)

\* C10 witness: a returned tree of three nodes in which a node with
\* children gained a downloadedImage and another node did not.
C10_Witness ==
    /\ outcome.status = "returned"
    /\ Size(given.nodes) >= 3
    /\ \E k \in 1 .. Len(Flatten(outcome.nodes)) :
          LET n == Flatten(outcome.nodes)[k] IN
          n.downloadedImage # <<>> /\ n.children # <<>>
    /\ \E k \in 1 .. Len(Flatten(outcome.nodes)) :
          Flatten(outcome.nodes)[k].downloadedImage = <<>>

(* ---- the display path claim (checked under SpecPath) ------------------ *)

\* the file name of a path: what follows its last separator
FileNameOf(p) ==
    LET k == CHOOSE k \in 0 .. Len(p) :
                 /\ k = 0 \/ p[k] \in Separators
                 /\ \A i \in k + 1 .. Len(p) : p[i] \notin Separators
    IN  SubSeq(p, k + 1, Len(p))

\* a path with every backslash written as a slash
Slashed(p) == [i \in 1 .. Len(p) |-> IF p[i] = "\\" THEN "/" ELSE p[i]]

\* the base path as a directory prefix: closed by a slash, then slashed
BaseDir(base) ==
    Slashed(IF base # <<>> /\ base[Len(base)] = "/" THEN base ELSE base \o <<"/">>)

\* the remainders r with BaseDir(base) followed by r being the slashed path
Remainders(p, base) ==
    { r \in { SubSeq(Slashed(p), i, Len(p)) : i \in 1 .. Len(p) + 1 } :
        BaseDir(base) \o r = Slashed(p) }

\* the display path the three policies call for
DisplayPath(p, policy) ==
    CASE policy.kind = "false" -> p
      [] policy.kind = "true" -> <<".", "/">> \o FileNameOf(p)
      [] OTHER ->
           IF Remainders(p, policy.base) # {}
           THEN <<".", "/">> \o (CHOOSE r \in Remainders(p, policy.base) : TRUE)
           ELSE <<".", "/">> \o FileNameOf(p)

RECURSIVE NodesOf(_)
NodesOf(f) ==
    UNION { {f[i]} \cup NodesOf(f[i].children) : i \in 1 .. Len(f) }

\* a node qualifies as an image asset: the marker type, or a fills
\* reference naming a list in globalVars.styles with an IMAGE entry
Qualifies(node, globalVars) ==
    \/ node.type = "IMAGE-SVG"
    \/ /\ node.fills \in DOMAIN globalVars.styles
       /\ globalVars.styles[node.fills].isArray
       /\ \E e \in { globalVars.styles[node.fills].items[i] :
                        i \in 1 .. Len(globalVars.styles[node.fills].items) } :
             e.type = "IMAGE"

\* C12: findImageAssets returns exactly the qualifying nodes of the tree,
\* each once, in pre-order (ids fall along the document order here, so
\* pre-order is strictly falling ids), and a second call on the same tree
\* returns the same sequence.
C12_ExactlyQualifyingInPreOrder ==
    /\ \A c \in 1 .. Len(found) :
          LET res == found[c]
              qualifying == { n \in NodesOf(design.nodes) :
                                Qualifies(n, design.globalVars) }
          IN  /\ { res[i] : i \in 1 .. Len(res) } = qualifying
              /\ Len(res) = Cardinality(qualifying)
              /\ \A i \in 1 .. Len(res) - 1 : res[i].id > res[i + 1].id
    /\ Len(found) = 2 => found[1] = found[2]

\* two calls made on a tree whose qualifying nodes are a parent (by its
\* fill) and its child (by its type), a third node not qualifying
C12_Witness ==
    /\ Len(found) = 2
    /\ Len(found[2]) = 2
    /\ Len(design.nodes) = 1
    /\ design.nodes[1].fills = "fill_IMG"
    /\ found[2][1] = design.nodes[1]
    /\ Len(design.nodes[1].children) = 2
    /\ found[2][2] \in { design.nodes[1].children[i] : i \in 1 .. 2 }
    /\ found[2][2].type = "IMAGE-SVG"

(* ---- the collapse hook's claims (checked under SpecCollapse) ---------- *)

\* the hook was called on a container all of whose processed children are
\* eligible
AllEligibleContainer ==
    /\ hook.node.type \in {"FRAME", "GROUP", "INSTANCE"}
    /\ \A i \in 1 .. Len(hook.children) : hook.children[i].type \in SVG_ELIGIBLE_TYPES

\* C13: called on a FRAME, GROUP or INSTANCE whose processed children all
\* have an eligible type, collapseSvgContainers rewrites the node's type
\* to IMAGE-SVG and returns an empty children list.
C13_AllEligibleCollapses ==
    (hooked # <<>> /\ AllEligibleContainer) =>
        /\ hooked[1].result.type = "IMAGE-SVG"
        /\ hooked[1].children = <<>>

\* a group of a line and an already collapsed child, collapsed
C13_Witness ==
    /\ hooked # <<>>
    /\ hook.node.type = "GROUP"
    /\ Len(hook.children) = 2
    /\ hook.children[1].type = "LINE"
    /\ hook.children[2].type = "IMAGE-SVG"
    /\ hooked[1].result.type = "IMAGE-SVG"
    /\ hooked[1].children = <<>>

\* C14: called on a node that is no FRAME, GROUP or INSTANCE, or that has
\* a processed child of a type outside the eligible set, the hook leaves
\* the node's type as it was and returns the children it was given, in
\* the order given.
C14_OtherwiseLeftExpanded ==
    (hooked # <<>> /\ ~AllEligibleContainer) =>
        /\ hooked[1].result.type = hook.result.type
        /\ hooked[1].result.type = hook.node.type
        /\ hooked[1].children = hook.children

\* a frame with an eligible child before and after a text child, left
\* as it was
C14_Witness ==
    /\ hooked # <<>>
    /\ hook.node.type = "FRAME"
    /\ Len(hook.children) = 3
    /\ hook.children[1].type = "RECTANGLE"
    /\ hook.children[2].type = "TEXT"
    /\ hook.children[3].type = "ELLIPSE"
    /\ hooked[1].result.type = "FRAME"
    /\ hooked[1].children = hook.children

(* ---- the walker's claims (checked under SpecWalk) --------------------- *)

\* the walker stops at this depth
Truncated(d, maxDepth) == maxDepth # <<>> /\ d >= maxDepth[1]

\* a raw node heads a chain of nested containers whose leaves are all
\* eligible: it is a container the walker enters, and each child is an
\* eligible leaf or heads such a chain itself
RECURSIVE HeadsEligibleChain(_, _, _)
HeadsEligibleChain(r, d, maxDepth) ==
    /\ r.type \in {"FRAME", "GROUP", "INSTANCE"}
    /\ ~Truncated(d, maxDepth)
    /\ \A i \in 1 .. Len(r.children) :
          \/ r.children[i].type \in {"STAR", "LINE", "ELLIPSE", "REGULAR_POLYGON",
                                      "RECTANGLE"}
          \/ HeadsEligibleChain(r.children[i], d + 1, maxDepth)

\* the simplified node decided from the top: the topmost head of an
\* eligible chain is one marker without descendants, and a node that
\* heads none keeps its type and its children, decided the same way
RECURSIVE DecidedTopDown(_, _, _)
DecidedTopDown(r, d, maxDepth) ==
    IF HeadsEligibleChain(r, d, maxDepth)
    THEN [id |-> r.id, type |-> "IMAGE-SVG", children |-> << <<>> >>]
    ELSE IF Truncated(d, maxDepth)
         THEN [id |-> r.id, type |-> r.type, children |-> <<>>]
         ELSE [id |-> r.id, type |-> r.type,
               children |-> <<[i \in 1 .. Len(r.children) |->
                                 DecidedTopDown(r.children[i], d + 1, maxDepth)]>>]

\* C15: nested containers whose leaves are all eligible collapse to
\* exactly one IMAGE-SVG marker, without descendants, at the topmost
\* container of the chain; every other node keeps its type and children.
C15_NestedCollapseToTopmost ==
    simplified # <<>> =>
        simplified[1] = [i \in 1 .. Len(rawNodes) |->
                            DecidedTopDown(rawNodes[i], 0, OrUndefined(depth))]

\* three nested frames around one rectangle give one top-level marker
C15_Witness ==
    /\ simplified # <<>>
    /\ Len(rawNodes) = 1
    /\ Len(rawNodes[1].children) = 1
    /\ Len(rawNodes[1].children[1].children) = 1
    /\ Len(rawNodes[1].children[1].children[1].children) = 1
    /\ rawNodes[1].children[1].children[1].children[1].type = "RECTANGLE"
    /\ Len(simplified[1]) = 1
    /\ simplified[1][1].type = "IMAGE-SVG"
    /\ simplified[1][1].children = << <<>> >>

\* the children a simplified node carries (none when the field is left out)
Kids(n) == IF n.children = <<>> THEN <<>> ELSE n.children[1]

\* the hops from a root of a forest to its deepest node (-1: no node)
RECURSIVE Deepest(_)
Deepest(f) ==
    IF f = <<>>
    THEN -1
    ELSE LET below == { 1 + Deepest(Kids(f[i])) : i \in 1 .. Len(f) }
         IN  CHOOSE d \in below : \A e \in below : e <= d

\* C20: getFigmaMetadata called with depth = N returns no node deeper
\* than N hops from a root; with N = 0 no returned node has children.
C20_DepthBoundsTree ==
    (simplified # <<>> /\ depth # <<>>) =>
        /\ Deepest(simplified[1]) <= depth[1]
        /\ depth[1] = 0 =>
              \A i \in 1 .. Len(simplified[1]) : Kids(simplified[1][i]) = <<>>

(* ---- the style registry's claims (SpecStyles, SpecTwice) -------------- *)

\* the registrations findOrCreateVar served (the anonymous path)
Anonymous(h) == { i \in 1 .. Len(h) : ~h[i].named }

\* a key that is a source-provided style name
IsName(id) == id[2] = 0

\* C16: within one call, findOrCreateVar returns the same id for two
\* structurally equal values and different ids for two values that differ
\* in a nested field.
C16_EqualValuesSameIdOthersDiffer ==
    \A i, j \in Anonymous(refs) :
        /\ refs[i].value = refs[j].value => refs[i].ref = refs[j].ref
        /\ refs[i].value # refs[j].value => refs[i].ref # refs[j].ref

\* C17: globalVars.styles never holds two keys with structurally equal
\* values, unless one of the two keys is a source-provided style name.
C17_NoDuplicateValuesButNamed ==
    \A i, j \in 1 .. Len(styles) :
        (i < j /\ styles[i].value = styles[j].value) =>
            (IsName(styles[i].id) \/ IsName(styles[j].id))

\* the same fill list was registered twice without a name and once under
\* a name: one generated key and the name hold it
C17_Witness ==
    /\ Len(styles) = 2
    /\ styles[1].value = styles[2].value
    /\ ~IsName(styles[1].id)
    /\ IsName(styles[2].id)
    /\ \E i, j \in Anonymous(refs) :
          i < j /\ refs[i].value = styles[1].value /\ refs[j].value = styles[1].value

NamedEntries(styles0) ==
    { styles0[i] : i \in { k \in 1 .. Len(styles0) : IsName(styles0[k].id) } }

C19_StoredValueNeverChanges ==
    [][\A i \in 1 .. Len(styles) :
          \E j \in 1 .. Len(styles') : styles'[j] = styles[i]]_vars

(* ---- further claims on the executor (SpecRun, SpecRunFair) ------------ *)

\* C25: for a non-empty task list and a limit of at least 1, if every
\* started task settles then the returned promise settles; it resolves
\* only when every task was started and has fulfilled, and it rejects
\* once a task has rejected.
C25_SettlesWhenTasksSettle ==
    /\ (N > 0 /\ limit >= 1) => <>(promise.state # "pending")
    /\ [](promise.state = "resolved" =>
            /\ launched = N
            /\ completed = N
            /\ \A i \in 1 .. N : taskSt[i] = "fulfilled" /\ Len(writes[i]) = 1)
    /\ (firstRejected # 0) ~> (promise.state = "rejected")

\* three tasks under limit 2: two fulfilled, the third rejected, and the
\* promise rejected with the third's reason
C25_Witness ==
    /\ N = 3
    /\ limit = 2
    /\ completed = 2
    /\ firstRejected = 3
    /\ promise = [state |-> "rejected", value |-> ErrOf(3)]

\* C26: called with a non-empty task list and a limit of 0 or less,
\* runWithConcurrency starts no task and its promise never settles.
C26_NonPositiveLimitNeverSettles ==
    (pc = "called" /\ N > 0 /\ limit <= 0) =>
        /\ launched = 0
        /\ \A i \in 1 .. N : taskSt[i] = "idle"
        /\ jobs = <<>>
        /\ promise.state = "pending"

\* the call was made with two tasks and limit 0
C26_Witness ==
    /\ pc = "called"
    /\ N = 2
    /\ limit = 0
    /\ promise.state = "pending"

\* C27: once the failure of a task has been observed (failed is set), no
\* task that was not started is started, and no completion of a task in
\* flight resolves the promise.
C27_NoLaunchAfterFailure ==
    [][failed =>
          /\ launched' = launched
          /\ \A i \in 1 .. N : taskSt[i] = "idle" => taskSt'[i] = "idle"
          /\ promise'.state = promise.state]_vars

\* limit 2, three tasks: the first rejected, the second fulfilled and its
\* result stored after the failure was observed (stored before, it would
\* have started the third), the third never started
C27_Witness ==
    /\ N = 3
    /\ limit = 2
    /\ failed
    /\ taskSt = <<"rejected", "fulfilled", "idle">>
    /\ results[2] # Empty
    /\ promise.state = "rejected"

(* ---- further claim on the style registry (SpecStyles) ------------------ *)

\* C28: every style reference id an extractor wrote on a node is, when the
\* simplification call ends, a key of globalVars.styles whose value equals
\* the value the extractor computed for that node.
C28_EveryRefResolvesToItsValue ==
    \A i \in 1 .. Len(refs) :
        \E k \in 1 .. Len(styles) :
            /\ styles[k].id = refs[i].ref
            /\ styles[k].value = refs[i].value

(* ---- further claim on enrichMetadataWithImages (SpecEnrich) ------------ *)

\* C29: when metadata.images is absent or empty, enrichMetadataWithImages
\* returns the metadata it was given, unchanged, with no downloadedImage
\* attached and no error raised, whatever paths were supplied.
C29_NoImagesReturnsGiven ==
    (outcome.status # "none" /\ ~HasImages) =>
        /\ outcome.status = "returned"
        /\ outcome.identity
        /\ outcome.error = NoError
        /\ outcome.nodes = given.nodes
        /\ metadata = given
        /\ \A k \in 1 .. Len(Flatten(outcome.nodes)) :
              Flatten(outcome.nodes)[k].downloadedImage = <<>>

\* images present and empty, the tree holds an asset, and the positional
\* array has a path too many; the call returned the given object
C29_Witness ==
    /\ given.images.present
    /\ given.images.list = <<>>
    /\ Assets # <<>>
    /\ imagePaths.isArray
    /\ Len(imagePaths.paths) > 0
    /\ outcome.status = "returned"
    /\ outcome.identity

(* ---- further claim on collapseSvgContainers (SpecCollapse) ------------- *)

\* the simplified node the hook's call leaves when it returned no
\* children: the type the hook left, no fill reference
ChildlessResult ==
    [id |-> 1, name |-> "box", type |-> hooked[1].result.type, fills |-> Absent,
     children |-> <<>>, downloadedImage |-> <<>>]

\* C30: called on a FRAME, GROUP or INSTANCE with an empty list of
\* processed children, collapseSvgContainers rewrites the node's type to
\* IMAGE-SVG, and findImageAssets then reports the childless container as
\* an image asset.
C30_ChildlessContainerIsAsset ==
    (/\ hooked # <<>>
     /\ hook.node.type \in {"FRAME", "GROUP", "INSTANCE"}
     /\ hook.children = <<>>) =>
        /\ hooked[1].result.type = "IMAGE-SVG"
        /\ hooked[1].children = <<>>
        /\ findImageAssets(<<ChildlessResult>>, [styles |-> Styles])
               = <<ChildlessResult>>

\* an instance without children, collapsed
C30_Witness ==
    /\ hooked # <<>>
    /\ hook.node.type = "INSTANCE"
    /\ hook.children = <<>>
    /\ hooked[1].result.type = "IMAGE-SVG"

(* ---- claims on the entry points (SpecEntry) --------------------------- *)

\* neither apiKey nor oauthToken is supplied
NoCredential == request.apiKey = "" /\ request.oauthToken = ""

\* the URL has a figma.com/(file|design)/<key> segment
HasFileSegment ==
    /\ request.figmaUrl.host = "www.figma.com"
    /\ request.figmaUrl.kind \in {"file", "design"}
    /\ request.figmaUrl.key # ""

\* C21: each entry point, called without a credential or with a URL that
\* has no figma.com/(file|design)/<key> segment, fails without having
\* made a FigmaService call; downloadFigmaFrameImage does so too when
\* the URL carries no node-id.
C21_ValidationFailsBeforeAnyCall ==
    (/\ apc # "start"
     /\ \/ NoCredential
        \/ ~HasFileSegment
        \/ /\ request.fn = "downloadFigmaFrameImage"
           /\ request.figmaUrl.nodeId = <<>>) =>
        /\ apc = "done"
        /\ answer.status = "threw"
        /\ calls = <<>>

\* downloadFigmaFrameImage with a credential, an output place and a file
\* URL without node-id: thrown, no call made
C21_Witness ==
    /\ request.fn = "downloadFigmaFrameImage"
    /\ ~NoCredential
    /\ HasFileSegment
    /\ request.figmaUrl.nodeId = <<>>
    /\ request.localPath # ""
    /\ request.fileName # <<>>
    /\ answer.status = "threw"
    /\ answer.message[1] = "No frame node-id found in URL. Please provide a Figma URL with a node-id parameter (e.g., ?node-id=123-456)"
    /\ calls = <<>>

\* C22: every error getFigmaMetadata throws after a FigmaService call
\* failed carries the file key in its message.
C22_ThrownMessageEmbedsFileKey ==
    (/\ request.fn = "getFigmaMetadata"
     /\ answer.status = "threw"
     /\ calls # <<>>
     /\ remote.fetch # <<>> \/ remote.render = "fails") =>
        \E i \in 1 .. Len(answer.message) : answer.message[i] = calls[1].fileKey

(* ---- claim on auto mode (SpecAuto) ------------------------------------ *)

\* the name's runs of letters and digits, lower-cased and joined by single
\* hyphens: out is what was built so far, gap says that other characters
\* were passed since
RECURSIVE JoinRuns(_, _, _)
JoinRuns(name, out, gap) ==
    IF name = <<>>
    THEN out
    ELSE LET c == Head(name) IN
         IF c \in {"a", "A", "7"}
         THEN JoinRuns(Tail(name),
                       out \o (IF gap /\ out # <<>> THEN <<"-">> ELSE <<>>)
                           \o <<IF c = "A" THEN "a" ELSE c>>,
                       FALSE)
         ELSE JoinRuns(Tail(name), out, TRUE)

\* only lower-case letters, digits and single hyphens, none at either end
WellFormedStem(t) ==
    /\ \A i \in 1 .. Len(t) : t[i] \in {"a", "7", "-"}
    /\ \A i \in 1 .. Len(t) - 1 : ~(t[i] = "-" /\ t[i + 1] = "-")
    /\ t # <<>> => (t[1] # "-" /\ t[Len(t)] # "-")

\* the assets the locator finds in the design of the file
AutoAssets == findImageAssets(remote.design.nodes, remote.design.globalVars)

\* C23: in auto mode getFigmaMetadata asks downloadImages for one item per
\* discovered image node, in the locator's order, under the file name
\* sanitize(name) + '.' + format, the sanitized name holding only
\* lower-case letters, digits and single hyphens, none at either end;
\* equal file names of different assets are requested as they are.
C23_OneRequestPerAssetSanitized ==
    (apc \in {"rendering", "done"} /\ AutoAssets # <<>>) =>
        /\ Len(calls) = 2
        /\ calls[2].op = "downloadImages"
        /\ Len(calls[2].items) = Len(AutoAssets)
        /\ \A i \in 1 .. Len(AutoAssets) :
              LET item == calls[2].items[i]
                  stem == SubSeq(item.fileName, 1, Len(item.fileName) - 2)
              IN  /\ item.nodeId = AutoAssets[i].id
                  /\ item.fileName
                        = JoinRuns(AutoAssets[i].name, <<>>, FALSE)
                          \o <<".", request.imageFormat>>
                  /\ WellFormedStem(stem)

\* two assets named "A " and "a" were both requested as a.png
C23_Witness ==
    /\ Len(calls) = 2
    /\ Len(AutoAssets) = 2
    /\ AutoAssets[1].name = <<"A", " ">>
    /\ AutoAssets[2].name = <<"a">>
    /\ calls[2].items[1].nodeId # calls[2].items[2].nodeId
    /\ calls[2].items[1].fileName = <<"a", ".", "png">>
    /\ calls[2].items[2].fileName = <<"a", ".", "png">>

(* ---- claim on parseAPIResponse (SpecParse) ---------------------------- *)

\* the positions of the responses that carry the table with the key
Carriers(table, k) ==
    { i \in 1 .. Len(apiData.nodes) :
        /\ apiData.nodes[i][table] # <<>>
        /\ k \in DOMAIN apiData.nodes[i][table][1] }

\* the merged table holds the keys of all responses, each with the entry
\* of the last response that carries it
MergedLastWins(table, merged) ==
    \A k \in {"k1", "k2"} :
        IF Carriers(table, k) = {}
        THEN k \notin DOMAIN merged
        ELSE /\ k \in DOMAIN merged
             /\ LET last == CHOOSE i \in Carriers(table, k) :
                                \A j \in Carriers(table, k) : j <= i
                IN  merged[k] = apiData.nodes[last][table][1][k]

\* the documents of the responses, in order, whose visible flag is not
\* false
RECURSIVE ShownDocuments(_)
ShownDocuments(i) ==
    IF i = 0
    THEN <<>>
    ELSE ShownDocuments(i - 1)
         \o (IF apiData.nodes[i].document.visible = <<FALSE>>
             THEN <<>> ELSE <<apiData.nodes[i].document>>)

\* C24: from a map of per-subtree responses parseAPIResponse merges the
\* component, component-set and style tables, a later response's entry
\* replacing an earlier one under the same key, and returns the subtree
\* documents in response order without those whose visible flag is false
\* (an absent flag counting as visible), each with all its children,
\* invisible ones included.
C24_MergedTablesVisibleRoots ==
    (parsed # <<>> /\ apiData.kind = "nodes") =>
        /\ MergedLastWins("components", parsed[1].components)
        /\ MergedLastWins("componentSets", parsed[1].componentSets)
        /\ MergedLastWins("styles", parsed[1].extraStyles)
        /\ parsed[1].rawNodes = ShownDocuments(Len(apiData.nodes))

\* two subtrees that both bring key k1: the first root invisible, the
\* second without flag and with an invisible child; the second's entries
\* and the second root, child included, are returned
C24_Witness ==
    /\ parsed # <<>>
    /\ apiData.kind = "nodes"
    /\ Len(apiData.nodes) = 2
    /\ apiData.nodes[1].document.visible = <<FALSE>>
    /\ apiData.nodes[2].document.visible = <<>>
    /\ Carriers("components", "k1") = {1, 2}
    /\ parsed[1].components["k1"].from = 2
    /\ Len(parsed[1].rawNodes) = 1
    /\ parsed[1].rawNodes[1].id = 2
    /\ Len(parsed[1].rawNodes[1].children) = 1
    /\ parsed[1].rawNodes[1].children[1].visible = <<FALSE>>

====
